---------------------------- MODULE Spec2Model ----------------------------
(***************************************************************************)
(* Password generation engine of the AIS repository: the order-N Markov   *)
(* chain generator (src/src/generators/markovGenerator.ts) and the         *)
(* heuristic random generator (src/src/generators/randomGenerator.ts).     *)
(*                                                                         *)
(* A JavaScript string is a sequence of one-character strings; a           *)
(* JavaScript Map is a sequence of <<key, value>> pairs in insertion       *)
(* order; a probability count/total is the reduced fraction <<n, d>>.      *)
(***************************************************************************)
EXTENDS Integers, Sequences, FiniteSets, TLC

(***************************************************************************)
(* Bounds of the model.                                                    *)
(***************************************************************************)
\* longest config.length handed to the Markov generator
MaxLen == 4
\* longest config.length handed to the heuristic generator
MaxRandomLen == 3
\* largest count handed to generateMultiplePasswords
MaxBatch == 2
\* longest password over EntropyChars handed to calculateEntropy
MaxEntropyLen == 3
\* most characters, over all its passwords, of a training corpus TrainAny enumerates
MaxCorpusChars == 3

(***************************************************************************)
(* Characters.  Ascii lists the printable ASCII characters in code order,  *)
(* so CharCode is String.prototype.charCodeAt(0) on them.  The grave       *)
(* accent (code 96) is written "backtick".                                 *)
(***************************************************************************)
Ascii ==
    << " ", "!", "\"", "#", "$", "%", "&", "'", "(", ")", "*", "+", ",", "-", ".", "/",
       "0", "1", "2", "3", "4", "5", "6", "7", "8", "9", ":", ";", "<", "=", ">", "?",
       "@", "A", "B", "C", "D", "E", "F", "G", "H", "I", "J", "K", "L", "M", "N", "O",
       "P", "Q", "R", "S", "T", "U", "V", "W", "X", "Y", "Z", "[", "\\", "]", "^", "_",
       "backtick", "a", "b", "c", "d", "e", "f", "g", "h", "i", "j", "k", "l", "m", "n", "o",
       "p", "q", "r", "s", "t", "u", "v", "w", "x", "y", "z", "{", "|", "}", "~" >>

RECURSIVE CodeTable(_)
CodeTable(i) ==
    IF i = Len(Ascii) THEN Ascii[i] :> (31 + i)
    ELSE (Ascii[i] :> (31 + i)) @@ CodeTable(i + 1)

CharCodes == CodeTable(1)

CharCode(c) == CharCodes[c]

CodeRange(lo, hi) == [i \in 1..(hi - lo + 1) |-> Ascii[lo + i - 32]]

Range(s) == {s[i] : i \in 1..Len(s)}

\* characters the random draws of the model range over: for every category a
\* character that no exclusion removes, the similar characters, an ambiguous
\* symbol of the symbol pool, and a symbol outside every pool
DrawChars == {"a", "l", "A", "O", "2", "0", "!", "(", "~"}

similarChars == <<"0", "O", "1", "l", "I">>

ambiguousChars ==
    << "{", "}", "[", "]", "(", ")", "/", "\\", "'", "\"", "backtick", "~", ",", ";", ".", "<", ">" >>

isUppercase(c) == CharCode(c) >= 65 /\ CharCode(c) <= 90

isLowercase(c) == CharCode(c) >= 97 /\ CharCode(c) <= 122

isNumber(c) == CharCode(c) >= 48 /\ CharCode(c) <= 57

isSymbol(c) == ~isUppercase(c) /\ ~isLowercase(c) /\ ~isNumber(c)

getCharacterType(c) ==
    IF isUppercase(c) THEN "uppercase"
    ELSE IF isLowercase(c) THEN "lowercase"
    ELSE IF isNumber(c) THEN "numbers"
    ELSE IF isSymbol(c) THEN "symbols"
    ELSE "null"

getLowercaseChars == CodeRange(97, 122)

getUppercaseChars == CodeRange(65, 90)

getNumberChars == CodeRange(48, 57)

getSymbolChars ==
    << "!", "@", "#", "$", "%", "^", "&", "*", "(", ")", "_", "+", "-", "=", "[", "]",
       "{", "}", "|", ";", ":", ",", ".", "<", ">", "?" >>

(***************************************************************************)
(* PasswordGeneratorConfig.                                                *)
(***************************************************************************)
Configs ==
    [length : 1..MaxLen,
     includeUppercase : BOOLEAN, includeLowercase : BOOLEAN,
     includeNumbers : BOOLEAN, includeSymbols : BOOLEAN,
     avoidSimilar : BOOLEAN, avoidAmbiguous : BOOLEAN]

\* at least one inclusion flag is set
SomeCategory(cfg) ==
    cfg.includeUppercase \/ cfg.includeLowercase \/ cfg.includeNumbers \/ cfg.includeSymbols

NoConfig ==
    [length |-> 0,
     includeUppercase |-> FALSE, includeLowercase |-> FALSE,
     includeNumbers |-> FALSE, includeSymbols |-> FALSE,
     avoidSimilar |-> FALSE, avoidAmbiguous |-> FALSE]

(***************************************************************************)
(* JavaScript Map as a sequence of <<key, value>> pairs.                   *)
(***************************************************************************)
MapKeys(m) == [i \in 1..Len(m) |-> m[i][1]]

MapHas(m, k) == \E i \in 1..Len(m) : m[i][1] = k

MapGet(m, k) == m[CHOOSE i \in 1..Len(m) : m[i][1] = k][2]

\* Map.prototype.set: an existing key keeps its place, a new key goes last
MapSet(m, k, v) ==
    IF MapHas(m, k)
    THEN [i \in 1..Len(m) |-> IF m[i][1] = k THEN <<k, v>> ELSE m[i]]
    ELSE Append(m, <<k, v>>)

(***************************************************************************)
(* JavaScript numbers, as reduced fractions <<n, d>> with d > 0.           *)
(***************************************************************************)
RECURSIVE Gcd(_, _)
Gcd(a, b) == IF b = 0 THEN a ELSE Gcd(b, a % b)

Frac(n, d) == <<n \div Gcd(n, d), d \div Gcd(n, d)>>

FracAdd(p, q) == Frac(p[1] * q[2] + q[1] * p[2], p[2] * q[2])

FracDiv(p, q) == Frac(p[1] * q[2], p[2] * q[1])

\* p <= q
FracLeq(p, q) == p[1] * q[2] <= q[1] * p[2]

\* Array.from(m.values()).reduce((sum, count) => sum + count, 0)
RECURSIVE SumValues(_)
SumValues(m) == IF m = <<>> THEN <<0, 1>> ELSE FracAdd(m[1][2], SumValues(Tail(m)))

(***************************************************************************)
(* State.                                                                  *)
(***************************************************************************)
VARIABLES
    model,         \* MarkovPasswordGenerator.model: state -> (nextChar -> probability)
    startStates,   \* MarkovPasswordGenerator.startStates: state -> probability
    order,         \* MarkovPasswordGenerator.order
    trainingData,  \* MarkovPasswordGenerator.trainingData
    retrained,     \* history: the last trainModel call cleared a non-empty model
    pc,            \* where the call in progress stands ("idle": no call)
    config,        \* the config argument of the call in progress
    password,      \* the string the call in progress is building
    counts,        \* the counts of ensureRequiredCharacters
    result,        \* what the finished call returned or threw
    batch          \* the generateMultiplePasswords call in progress, if any

trainVars == <<model, startStates, order, trainingData>>

callVars == <<pc, config, password, counts, result, batch>>

vars ==
    <<model, startStates, order, trainingData, retrained, pc, config, password, counts, result,
      batch>>

NoCounts == [uppercase |-> 0, lowercase |-> 0, numbers |-> 0, symbols |-> 0]

NoResult == [kind |-> "none"]

NoBatch == [generator |-> "none"]

\* where a finished generatePassword call goes: back to its caller, or to the push of
\* generateMultiplePasswords
Finished == IF batch = NoBatch THEN "done" ELSE "b_push"

(***************************************************************************)
(* MarkovPasswordGenerator.trainModel                                      *)
(***************************************************************************)
\* a clear() that leaves the entries in place
clear_keepsEntries(m) == m

\* Map.prototype.clear
clear(m) == <<>>

\* (m.get(k) || 0) + 1
countUp(m, k) == FracAdd(IF MapHas(m, k) THEN MapGet(m, k) ELSE <<0, 1>>, <<1, 1>>)

\* the inner loop stopping one position early: the last transition is not recorded
RECURSIVE recordTransitions_stopsEarly(_, _, _, _)
recordTransitions_stopsEarly(m, pw, ord, i) ==
    IF ~(i < Len(pw) - ord - 1) THEN m
    ELSE LET currentState == SubSeq(pw, i + 1, i + ord)
             nextChar == pw[i + ord + 1]
             m1 == IF MapHas(m, currentState) THEN m ELSE MapSet(m, currentState, <<>>)
             transitions == MapGet(m1, currentState)
         IN recordTransitions_stopsEarly(
                MapSet(m1, currentState,
                       MapSet(transitions, nextChar, countUp(transitions, nextChar))),
                pw, ord, i + 1)

\* the inner loop of trainModel over the positions i of one password
RECURSIVE recordTransitions(_, _, _, _)
recordTransitions(m, pw, ord, i) ==
    IF ~(i < Len(pw) - ord) THEN m
    ELSE LET currentState == SubSeq(pw, i + 1, i + ord)
             nextChar == pw[i + ord + 1]
             m1 == IF MapHas(m, currentState) THEN m ELSE MapSet(m, currentState, <<>>)
             transitions == MapGet(m1, currentState)
         IN recordTransitions(
                MapSet(m1, currentState,
                       MapSet(transitions, nextChar, countUp(transitions, nextChar))),
                pw, ord, i + 1)

\* an outer loop that records the start state before the length test
RECURSIVE recordPasswords_startOfEveryPassword(_, _, _, _)
recordPasswords_startOfEveryPassword(tables, passwords, ord, k) ==
    IF k > Len(passwords) THEN tables
    ELSE LET pw == passwords[k]
             startState == IF Len(pw) < ord THEN pw ELSE SubSeq(pw, 1, ord)
             started == MapSet(tables.startStates, startState,
                               countUp(tables.startStates, startState))
         IN IF Len(pw) < ord + 1
            THEN recordPasswords_startOfEveryPassword(
                     [startStates |-> started, model |-> tables.model], passwords, ord, k + 1)
            ELSE recordPasswords_startOfEveryPassword(
                     [startStates |-> started,
                      model |-> recordTransitions(tables.model, pw, ord, 0)],
                     passwords, ord, k + 1)

\* the outer loop of trainModel: the counts after passwords[k], passwords[k+1], ...
RECURSIVE recordPasswords(_, _, _, _)
recordPasswords(tables, passwords, ord, k) ==
    IF k > Len(passwords) THEN tables
    ELSE LET pw == passwords[k] IN
         IF Len(pw) < ord + 1 THEN recordPasswords(tables, passwords, ord, k + 1)
         ELSE LET startState == SubSeq(pw, 1, ord)
              IN recordPasswords(
                     [startStates |-> MapSet(tables.startStates, startState,
                                             countUp(tables.startStates, startState)),
                      model |-> recordTransitions(tables.model, pw, ord, 0)],
                     passwords, ord, k + 1)

\* a normalisation dividing by the number of entries instead of the sum of the counts
normalizeCounts_byEntries(m) ==
    [i \in 1..Len(m) |-> <<m[i][1], FracDiv(m[i][2], <<Len(m), 1>>)>>]

\* one Map of counts to the probabilities count / total
normalizeCounts(m) ==
    LET total == SumValues(m) IN [i \in 1..Len(m) |-> <<m[i][1], FracDiv(m[i][2], total)>>]

normalizeProbabilities(tables) ==
    [model |-> [i \in 1..Len(tables.model) |->
                   <<tables.model[i][1], normalizeCounts(tables.model[i][2])>>],
     startStates |-> normalizeCounts(tables.startStates)]

trainModel(passwords, ord) ==
    LET cleared == [startStates |-> clear(startStates), model |-> clear(model)]
        tables == normalizeProbabilities(recordPasswords(cleared, passwords, ord, 1))
    IN /\ pc = "idle"
       /\ order' = ord
       /\ trainingData' = passwords
       /\ model' = tables.model
       /\ startStates' = tables.startStates
       /\ retrained' = (model # <<>>)
       /\ UNCHANGED callVars

(***************************************************************************)
(* Character pools and random draws (MarkovPasswordGenerator).             *)
(***************************************************************************)
InSeq(c, s) == \E i \in 1..Len(s) : s[i] = c

filterCharsForConfig(chars, cfg) ==
    LET afterSimilar == IF cfg.avoidSimilar
                        THEN SelectSeq(chars, LAMBDA c : ~InSeq(c, similarChars))
                        ELSE chars
    IN IF cfg.avoidAmbiguous
       THEN SelectSeq(afterSimilar, LAMBDA c : ~InSeq(c, ambiguousChars))
       ELSE afterSimilar

\* a pool without the lowercase default for a configuration that enables no category
buildAllowedCharacterPool_noDefault(cfg) ==
    filterCharsForConfig((IF cfg.includeLowercase THEN getLowercaseChars ELSE <<>>)
                         \o (IF cfg.includeUppercase THEN getUppercaseChars ELSE <<>>)
                         \o (IF cfg.includeNumbers THEN getNumberChars ELSE <<>>)
                         \o (IF cfg.includeSymbols THEN getSymbolChars ELSE <<>>), cfg)

buildAllowedCharacterPool(cfg) ==
    LET pool == (IF cfg.includeLowercase THEN getLowercaseChars ELSE <<>>)
                \o (IF cfg.includeUppercase THEN getUppercaseChars ELSE <<>>)
                \o (IF cfg.includeNumbers THEN getNumberChars ELSE <<>>)
                \o (IF cfg.includeSymbols THEN getSymbolChars ELSE <<>>)
        pool1 == IF Len(pool) = 0 THEN getLowercaseChars ELSE pool
        filtered == filterCharsForConfig(pool1, cfg)
    IN IF Len(filtered) > 0 THEN filtered ELSE pool1

\* the characters getRandomFromPool(pool) can return: pool[floor(random * length)],
\* "a" for an empty pool; the draws of the model range over DrawChars
getRandomFromPool(pool) == IF Len(pool) = 0 THEN {"a"} ELSE Range(pool) \cap DrawChars

\* a draw from the category's characters that skips the configuration's filter
getRandomFromChars_unfiltered(chars, cfg) == getRandomFromPool(chars)

getRandomFromChars(chars, cfg) ==
    LET filtered == filterCharsForConfig(chars, cfg)
    IN getRandomFromPool(IF Len(filtered) > 0 THEN filtered ELSE chars)

getRandomCharacter(cfg) == getRandomFromPool(buildAllowedCharacterPool(cfg))

\* the sequences that take their i-th element from the i-th set
RECURSIVE SeqProduct(_)
SeqProduct(sets) ==
    IF sets = <<>> THEN {<<>>}
    ELSE {<<h>> \o t : h \in Head(sets), t \in SeqProduct(Tail(sets))}

\* a slice that cuts nothing
SliceTo_keepsAll(s, n) == s

\* String.prototype.slice(0, n), n >= 0
SliceTo(s, n) == IF Len(s) <= n THEN s ELSE SubSeq(s, 1, n)

(***************************************************************************)
(* Security metrics.  An entropy is a number of millionths of a bit:       *)
(* Log2Micro[n] is floor(10^6 * log2(n)).                                  *)
(***************************************************************************)
Log2Micro ==
    << 0, 1000000, 1584962, 2000000, 2321928, 2584962, 2807354, 3000000, 3169925, 3321928,
       3459431, 3584962, 3700439, 3807354, 3906890, 4000000, 4087462, 4169925, 4247927,
       4321928, 4392317, 4459431, 4523561, 4584962, 4643856, 4700439, 4754887, 4807354,
       4857980, 4906890, 4954196, 5000000, 5044394, 5087462, 5129283, 5169925, 5209453,
       5247927, 5285402, 5321928, 5357552, 5392317, 5426264, 5459431, 5491853, 5523561,
       5554588, 5584962, 5614709, 5643856, 5672425, 5700439, 5727920, 5754887, 5781359,
       5807354, 5832890, 5857980, 5882643, 5906890, 5930737, 5954196, 5977279, 6000000,
       6022367, 6044394, 6066089, 6087462, 6108524, 6129283, 6149747, 6169925, 6189824,
       6209453, 6228818, 6247927, 6266786, 6285402, 6303780, 6321928, 6339850, 6357552,
       6375039, 6392317, 6409390, 6426264, 6442943, 6459431, 6475733, 6491853, 6507794,
       6523561, 6539158, 6554588, 6569855 >>

Micro == 1000000

\* Math.log2(0) is -Infinity and 0 * -Infinity is NaN
NaN == -1

Max(a, b) == IF a >= b THEN a ELSE b

Min(a, b) == IF a <= b THEN a ELSE b

getCharacterSetSizeFromPassword(pw) == Cardinality(Range(pw))

getCharacterSetSize(cfg) ==
    (IF cfg.includeLowercase THEN Len(getLowercaseChars) ELSE 0)
    + (IF cfg.includeUppercase THEN Len(getUppercaseChars) ELSE 0)
    + (IF cfg.includeNumbers THEN Len(getNumberChars) ELSE 0)
    + (IF cfg.includeSymbols THEN Len(getSymbolChars) ELSE 0)

\* an alphabet size that is the number of distinct characters alone
effectiveCharsetSize_observedOnly(pw) == Cardinality(Range(pw))

\* the alphabet size calculateEntropy takes the logarithm of
effectiveCharsetSize(pw) ==
    LET charsetSize == getCharacterSetSizeFromPassword(pw)
        theoreticalSize ==
            (IF \E i \in 1..Len(pw) : isLowercase(pw[i]) THEN 26 ELSE 0)
            + (IF \E i \in 1..Len(pw) : isUppercase(pw[i]) THEN 26 ELSE 0)
            + (IF \E i \in 1..Len(pw) : isNumber(pw[i]) THEN 10 ELSE 0)
            + (IF \E i \in 1..Len(pw) : isSymbol(pw[i]) THEN 32 ELSE 0)
    IN IF charsetSize < 26 THEN Max(charsetSize, theoreticalSize) ELSE charsetSize

calculateEntropy(pw) ==
    IF effectiveCharsetSize(pw) = 0 THEN NaN
    ELSE Len(pw) * Log2Micro[effectiveCharsetSize(pw)]

\* RandomPasswordGenerator.calculateEntropy
randomCalculateEntropy(pw) ==
    LET charsetSize == Cardinality(Range(pw))
        theoreticalSize ==
            (IF \E i \in 1..Len(pw) : isLowercase(pw[i]) THEN 26 ELSE 0)
            + (IF \E i \in 1..Len(pw) : isUppercase(pw[i]) THEN 26 ELSE 0)
            + (IF \E i \in 1..Len(pw) : isNumber(pw[i]) THEN 10 ELSE 0)
            + (IF \E i \in 1..Len(pw) : ~isLowercase(pw[i]) /\ ~isUppercase(pw[i])
                                           /\ ~isNumber(pw[i]) THEN 32 ELSE 0)
        size == IF charsetSize < 26 THEN Max(charsetSize, theoreticalSize) ELSE charsetSize
    IN IF size = 0 THEN NaN ELSE Len(pw) * Log2Micro[size]

\* entropy < 60, false for NaN
below60(entropy) == entropy # NaN /\ entropy < 60 * Micro

\* Math.ceil(60 / Math.log2(size)); -0 for size 0
neededLength(size) ==
    IF size = 0 THEN 0
    ELSE (60 * Micro + Log2Micro[size] - 1) \div Log2Micro[size]

\* bins whose second threshold is 45 bits
determineStrengthLevel_weakTo45(entropy) ==
    IF entropy # NaN /\ entropy < 30 * Micro THEN "Very Weak"
    ELSE IF entropy # NaN /\ entropy < 45 * Micro THEN "Weak"
    ELSE IF entropy # NaN /\ entropy < 50 * Micro THEN "Average"
    ELSE IF entropy # NaN /\ entropy < 60 * Micro THEN "Strong"
    ELSE "Very Strong"

determineStrengthLevel(entropy) ==
    IF entropy # NaN /\ entropy < 30 * Micro THEN "Very Weak"
    ELSE IF entropy # NaN /\ entropy < 40 * Micro THEN "Weak"
    ELSE IF entropy # NaN /\ entropy < 50 * Micro THEN "Average"
    ELSE IF entropy # NaN /\ entropy < 60 * Micro THEN "Strong"
    ELSE "Very Strong"

\* MarkovPasswordGenerator.calculateTimeToCrack: the time is 2^bits / 10^12 seconds,
\* held as bits = log2(charsetSize ^ length) in millionths
markovTimeToCrack(pw, cfg) ==
    LET charsetSize == Max(Max(getCharacterSetSize(cfg), getCharacterSetSizeFromPassword(pw)), 1)
    IN [bits |-> Len(pw) * Log2Micro[charsetSize]]

(***************************************************************************)
(* MarkovPasswordGenerator.generatePassword, one action per step.          *)
(***************************************************************************)
Lcm(a, b) == (a * b) \div Gcd(a, b)

RECURSIVE DenominatorLcm(_)
DenominatorLcm(m) == IF m = <<>> THEN 1 ELSE Lcm(m[1][2][2], DenominatorLcm(Tail(m)))

\* the values of Math.random(), in [0, 1), that tell the entries of the distribution
\* m apart: every interval between two cumulative sums holds one of them
RandomDraws(m) ==
    LET d == 2 * DenominatorLcm(m) IN {<<k, d>> : k \in 0..(d - 1)}

\* the inverse-CDF walk: the index of the first entry at which random <= cumulative,
\* 0 when the loop ends without returning
RECURSIVE walkCdf(_, _, _, _)
walkCdf(m, random, i, cumulative) ==
    IF i > Len(m) THEN 0
    ELSE LET cumulative1 == FracAdd(cumulative, m[i][2])
         IN IF FracLeq(random, cumulative1) THEN i
            ELSE walkCdf(m, random, i + 1, cumulative1)

selectRandomStartState(random) ==
    LET i == walkCdf(startStates, random, 1, <<0, 1>>)
    IN IF i # 0 THEN startStates[i][1]
       ELSE IF startStates # <<>> /\ startStates[1][1] # <<>> THEN startStates[1][1]
       ELSE <<"a">>

Null == "null"

selectNextCharacter(currentState, random) ==
    IF ~MapHas(model, currentState) \/ Len(MapGet(model, currentState)) = 0 THEN Null
    ELSE LET transitions == MapGet(model, currentState)
             i == walkCdf(transitions, random, 1, <<0, 1>>)
         IN IF i # 0 THEN transitions[i][1] ELSE Null

\* String.prototype.substring(length - n)
LastChars(s, n) == IF n >= Len(s) THEN s ELSE SubSeq(s, Len(s) - n + 1, Len(s))

Thrown(message) == [kind |-> "error", message |-> message]

\* a generatePassword that starts the chain without looking at the size of the table
startMarkovPassword_noSizeTest(cfg) ==
    /\ config' = cfg
    /\ counts' = NoCounts
    /\ \E random \in RandomDraws(startStates) : password' = selectRandomStartState(random)
    /\ pc' = "m_chain"
    /\ result' = NoResult

\* generatePassword up to the choice of the start state
startMarkovPassword(cfg) ==
    /\ config' = cfg
    /\ counts' = NoCounts
    /\ IF Len(model) = 0
       THEN /\ pc' = Finished
            /\ password' = <<>>
            /\ result' = Thrown("Markov model not trained. Call trainModel() first.")
       ELSE /\ \E random \in RandomDraws(startStates) :
                   password' = selectRandomStartState(random)
            /\ pc' = "m_chain"
            /\ result' = NoResult

M_Begin(cfgs) ==
    /\ pc = "idle"
    /\ \E cfg \in cfgs : startMarkovPassword(cfg)
    /\ UNCHANGED <<trainVars, retrained, batch>>

\* a chain step that deletes from the table the state it has just sampled from
M_ChainStep_dropsUsedState ==
    /\ pc = "m_chain"
    /\ IF Len(password) < config.length
       THEN LET currentState == LastChars(password, order)
                draws == IF MapHas(model, currentState)
                         THEN RandomDraws(MapGet(model, currentState)) ELSE {<<0, 1>>}
            IN \E random \in draws :
                   LET nextChar == selectNextCharacter(currentState, random)
                   IN IF nextChar = Null
                      THEN pc' = "m_pad" /\ UNCHANGED <<password, model>>
                      ELSE /\ pc' = "m_chain"
                           /\ password' = Append(password, nextChar)
                           /\ model' = SelectSeq(model, LAMBDA e : e[1] # currentState)
       ELSE pc' = "m_pad" /\ UNCHANGED <<password, model>>
    /\ UNCHANGED <<startStates, order, trainingData, retrained, batch, config, counts, result>>

\* one iteration of the chain loop of generateBasePassword, or its exit
M_ChainStep ==
    /\ pc = "m_chain"
    /\ IF Len(password) < config.length
       THEN LET currentState == LastChars(password, order)
                draws == IF MapHas(model, currentState)
                         THEN RandomDraws(MapGet(model, currentState)) ELSE {<<0, 1>>}
            IN \E random \in draws :
                   LET nextChar == selectNextCharacter(currentState, random)
                   IN IF nextChar = Null
                      THEN pc' = "m_pad" /\ UNCHANGED password
                      ELSE pc' = "m_chain" /\ password' = Append(password, nextChar)
       ELSE pc' = "m_pad" /\ UNCHANGED password
    /\ UNCHANGED <<trainVars, retrained, batch, config, counts, result>>

\* a padding step that hands the password back to the chain loop
M_PadStep_resumesChain ==
    /\ pc = "m_pad"
    /\ IF Len(password) < config.length
       THEN /\ \E randomChar \in getRandomCharacter(config) :
                   password' = Append(password, randomChar)
            /\ pc' = "m_chain"
       ELSE pc' = "m_sanitize" /\ UNCHANGED password
    /\ UNCHANGED <<trainVars, retrained, batch, config, counts, result>>

\* one iteration of the padding loop of generateBasePassword, or its exit
M_PadStep ==
    /\ pc = "m_pad"
    /\ IF Len(password) < config.length
       THEN /\ \E randomChar \in getRandomCharacter(config) :
                   password' = Append(password, randomChar)
            /\ pc' = "m_pad"
       ELSE pc' = "m_sanitize" /\ UNCHANGED password
    /\ UNCHANGED <<trainVars, retrained, batch, config, counts, result>>

\* the strings sanitizeToAllowedCharacters can return
sanitizeToAllowedCharacters(pw, cfg) ==
    LET allowedPool == buildAllowedCharacterPool(cfg)
        allowedSet == Range(allowedPool)
        kept == SliceTo(pw, cfg.length)
    IN SeqProduct([i \in 1..Len(kept) |->
                      IF kept[i] \in allowedSet THEN {kept[i]}
                      ELSE getRandomFromPool(allowedPool)])

M_Sanitize ==
    /\ pc = "m_sanitize"
    /\ IF Len(buildAllowedCharacterPool(config)) = 0
       THEN /\ pc' = Finished
            /\ result' = Thrown("No allowed characters available for password generation")
            /\ UNCHANGED password
       ELSE /\ \E sanitized \in sanitizeToAllowedCharacters(password, config) :
                   password' = sanitized
            /\ pc' = "m_categories"
            /\ UNCHANGED result
    /\ UNCHANGED <<trainVars, retrained, batch, config, counts>>

HasType(chars, type) == \E i \in 1..Len(chars) : getCharacterType(chars[i]) = type

\* ensureCategory of ensureCharacterCategories, on each of the strings in `strings`
ensureCategory(strings, cfg, isRequired, type, pool) ==
    UNION {IF ~isRequired \/ HasType(chars, type) \/ Len(chars) = 0
           THEN {chars}
           ELSE {[chars EXCEPT ![index] = c] :
                    index \in 1..Len(chars), c \in getRandomFromChars(pool, cfg)}
           : chars \in strings}

\* the strings ensureCharacterCategories can return
ensureCharacterCategories(pw, cfg) ==
    LET afterUppercase == ensureCategory({pw}, cfg, cfg.includeUppercase, "uppercase",
                                         getUppercaseChars)
        afterLowercase == ensureCategory(afterUppercase, cfg, cfg.includeLowercase, "lowercase",
                                         getLowercaseChars)
        afterNumbers == ensureCategory(afterLowercase, cfg, cfg.includeNumbers, "numbers",
                                       getNumberChars)
    IN ensureCategory(afterNumbers, cfg, cfg.includeSymbols, "symbols", getSymbolChars)

CountType(chars, type) == Cardinality({i \in 1..Len(chars) : getCharacterType(chars[i]) = type})

\* the counts ensureRequiredCharacters starts from
countTypes(chars) ==
    [uppercase |-> CountType(chars, "uppercase"), lowercase |-> CountType(chars, "lowercase"),
     numbers |-> CountType(chars, "numbers"), symbols |-> CountType(chars, "symbols")]

\* minimums that ask for one character of each enabled category
minimums_oneEach(cfg) ==
    [uppercase |-> IF cfg.includeUppercase THEN 1 ELSE 0,
     lowercase |-> IF cfg.includeLowercase THEN 1 ELSE 0,
     numbers |-> IF cfg.includeNumbers THEN 1 ELSE 0,
     symbols |-> IF cfg.includeSymbols THEN 1 ELSE 0]

minimums(cfg) ==
    [uppercase |-> IF cfg.includeUppercase THEN 1 ELSE 0,
     lowercase |-> IF cfg.includeLowercase THEN 1 ELSE 0,
     numbers |-> IF cfg.includeNumbers THEN 2 ELSE 0,
     symbols |-> IF cfg.includeSymbols THEN 2 ELSE 0]

\* ensureCharacterCategories, then ensureRequiredCharacters up to its first loop
M_EnsureCategories ==
    /\ pc = "m_categories"
    /\ \E improved \in ensureCharacterCategories(password, config) :
           /\ password' = improved
           /\ counts' = countTypes(improved)
    /\ pc' = "m_symbols"
    /\ UNCHANGED <<trainVars, retrained, batch, config, result>>

\* a canReplace that accepts every character of another category
canReplace_anyOtherCategory(chars, cnts, cfg, targetType, index) ==
    getCharacterType(chars[index]) # targetType

canReplace(chars, cnts, cfg, targetType, index) ==
    LET currentType == getCharacterType(chars[index])
    IN IF currentType = "null" THEN TRUE
       ELSE IF currentType = targetType THEN FALSE
       ELSE cnts[currentType] - 1 >= minimums(cfg)[currentType]

\* the indices (from 1) findReplacementIndex can return: an index canReplace accepts
\* when there is one (found by a random attempt, or else by the scan), any index
\* otherwise
findReplacementIndex(chars, cnts, cfg, targetType) ==
    LET replaceable == {index \in 1..Len(chars) : canReplace(chars, cnts, cfg, targetType, index)}
    IN IF Len(chars) = 0 THEN {1}
       ELSE IF replaceable # {} THEN replaceable
       ELSE 1..Len(chars)

\* replaceChar: the characters and the counts after chars[index] = newChar
replaceChar(chars, cnts, index, newChar, newType) ==
    LET cnts1 == IF index <= Len(chars)
                 THEN [cnts EXCEPT ![getCharacterType(chars[index])] = @ - 1]
                 ELSE cnts
    IN [chars |-> IF index <= Len(chars) THEN [chars EXCEPT ![index] = newChar]
                  ELSE Append(chars, newChar),
        counts |-> [cnts1 EXCEPT ![newType] = @ + 1]]

\* one iteration of the loop of ensureType(type, pool), or its exit to pc `next`
ensureTypeStep(type, isIncluded, pool, next) ==
    IF isIncluded /\ counts[type] < minimums(config)[type]
    THEN /\ \E index \in findReplacementIndex(password, counts, config, type),
               newChar \in getRandomFromChars(pool, config) :
                LET replaced == replaceChar(password, counts, index, newChar, type)
                IN password' = replaced.chars /\ counts' = replaced.counts
         /\ UNCHANGED pc
    ELSE pc' = next /\ UNCHANGED <<password, counts>>

M_EnsureSymbols ==
    /\ pc = "m_symbols"
    /\ ensureTypeStep("symbols", config.includeSymbols, getSymbolChars, "m_numbers")
    /\ UNCHANGED <<trainVars, retrained, batch, config, result>>

M_EnsureNumbers ==
    /\ pc = "m_numbers"
    /\ ensureTypeStep("numbers", config.includeNumbers, getNumberChars, "m_entropy")
    /\ UNCHANGED <<trainVars, retrained, batch, config, result>>

\* the strings MarkovPasswordGenerator.addEntropy can return
markovAddEntropy(pw, cfg) ==
    LET needed == neededLength(getCharacterSetSize(cfg))
        extended ==
            IF below60(calculateEntropy(pw)) /\ needed > Len(pw) /\ Len(pw) < cfg.length
            THEN {pw \o more :
                     more \in SeqProduct([i \in 1..(Min(needed, cfg.length) - Len(pw)) |->
                                             getRandomCharacter(cfg)])}
            ELSE {pw}
    IN {SliceTo(e, cfg.length) : e \in extended}

Generated(pw, entropy, timeToCrack, method) ==
    [kind |-> "password", password |-> pw, entropy |-> entropy, timeToCrack |-> timeToCrack,
     strengthLevel |-> determineStrengthLevel(entropy), generationMethod |-> method]

\* the entropy step of applySecurityImprovements, the metrics and the return
M_Finish ==
    /\ pc = "m_entropy"
    /\ \E improved \in (IF below60(calculateEntropy(password))
                        THEN markovAddEntropy(password, config) ELSE {password}) :
           /\ password' = improved
           /\ result' = Generated(improved, calculateEntropy(improved),
                                  markovTimeToCrack(improved, config), "markov")
    /\ pc' = Finished
    /\ counts' = NoCounts
    /\ UNCHANGED <<trainVars, retrained, batch, config>>

\* the caller takes what the call returned or threw
Return ==
    /\ pc = "done"
    /\ pc' = "idle"
    /\ config' = NoConfig
    /\ password' = <<>>
    /\ counts' = NoCounts
    /\ result' = NoResult
    /\ batch' = NoBatch
    /\ UNCHANGED <<trainVars, retrained>>

(***************************************************************************)
(* RandomPasswordGenerator.generatePassword, one action per step.          *)
(***************************************************************************)
\* the characters charset[Math.floor(Math.random() * charset.length)] can be, for a
\* non-empty charset; the draws of the model range over DrawChars
drawFrom(charset) == Range(charset) \cap DrawChars

\* the charset of the enabled categories, before any exclusion
configCharset(cfg) ==
    (IF cfg.includeLowercase THEN getLowercaseChars ELSE <<>>)
    \o (IF cfg.includeUppercase THEN getUppercaseChars ELSE <<>>)
    \o (IF cfg.includeNumbers THEN getNumberChars ELSE <<>>)
    \o (IF cfg.includeSymbols THEN getSymbolChars ELSE <<>>)

\* the charset generateBasePassword draws from
baseCharset(cfg) ==
    LET charset == configCharset(cfg)
        afterSimilar == IF cfg.avoidSimilar
                        THEN SelectSeq(charset, LAMBDA c : ~InSeq(c, similarChars))
                        ELSE charset
    IN IF cfg.avoidAmbiguous
       THEN SelectSeq(afterSimilar, LAMBDA c : ~InSeq(c, ambiguousChars))
       ELSE afterSimilar

\* generatePassword up to the return of generateBasePassword
startRandomPassword(cfg) ==
    /\ config' = cfg
    /\ counts' = NoCounts
    /\ IF Len(baseCharset(cfg)) = 0
       THEN /\ pc' = Finished
            /\ password' = <<>>
            /\ result' = Thrown("No character set available for password generation")
       ELSE /\ password' \in [1..cfg.length -> drawFrom(baseCharset(cfg))]
            /\ pc' = "r_categories"
            /\ result' = NoResult

R_Begin(cfgs) ==
    /\ pc = "idle"
    /\ \E cfg \in cfgs : startRandomPassword(cfg)
    /\ UNCHANGED <<trainVars, retrained, batch>>

\* one `if` of ensureCharacterCategories on each of the strings in `results`: the
\* test reads the characters of the password the function was called with
overwriteMissing(results, chars, isIncluded, pool) ==
    UNION {IF isIncluded /\ ~\E i \in 1..Len(chars) : InSeq(chars[i], pool)
           THEN IF Len(r) = 0 THEN {<<c>> : c \in drawFrom(pool)}
                ELSE {[r EXCEPT ![randomPos] = c] :
                         randomPos \in 1..Len(r), c \in drawFrom(pool)}
           ELSE {r}
           : r \in results}

\* the strings RandomPasswordGenerator.ensureCharacterCategories can return
randomEnsureCharacterCategories(pw, cfg) ==
    LET afterUppercase == overwriteMissing({pw}, pw, cfg.includeUppercase, getUppercaseChars)
        afterLowercase == overwriteMissing(afterUppercase, pw, cfg.includeLowercase,
                                           getLowercaseChars)
        afterNumbers == overwriteMissing(afterLowercase, pw, cfg.includeNumbers, getNumberChars)
    IN overwriteMissing(afterNumbers, pw, cfg.includeSymbols, getSymbolChars)

R_EnsureCategories ==
    /\ pc = "r_categories"
    /\ password' \in randomEnsureCharacterCategories(password, config)
    /\ pc' = "r_patterns"
    /\ UNCHANGED <<trainVars, retrained, batch, config, counts, result>>

\* alternatives that are the four pools together, whatever the character
getAlternativeChars_allPools(c) ==
    getLowercaseChars \o getUppercaseChars \o getNumberChars \o getSymbolChars

getAlternativeChars(c) ==
    IF InSeq(c, getLowercaseChars) THEN getLowercaseChars
    ELSE IF InSeq(c, getUppercaseChars) THEN getUppercaseChars
    ELSE IF InSeq(c, getNumberChars) THEN getNumberChars
    ELSE IF InSeq(c, getSymbolChars) THEN getSymbolChars
    ELSE getLowercaseChars \o getUppercaseChars \o getNumberChars \o getSymbolChars

\* the length of the run of equal characters that starts pw
RECURSIVE runLength(_)
runLength(pw) ==
    IF Len(pw) <= 1 THEN Len(pw)
    ELSE IF pw[2] = pw[1] THEN 1 + runLength(Tail(pw)) ELSE 1

\* the strings breakCommonPatterns can return: each match of /(.)\1{2,}/g, a maximal
\* run of three or more, keeps its first character and redraws the others
RECURSIVE breakCommonPatterns(_)
breakCommonPatterns(pw) ==
    IF Len(pw) < 3 THEN {pw}
    ELSE LET length == runLength(pw)
         IN IF length >= 3
            THEN {<<pw[1]>> \o replacement \o rest :
                     replacement \in SeqProduct([i \in 1..(length - 1) |->
                                                    drawFrom(getAlternativeChars(pw[1]))]),
                     rest \in breakCommonPatterns(SubSeq(pw, length + 1, Len(pw)))}
            ELSE {<<pw[1]>> \o rest : rest \in breakCommonPatterns(Tail(pw))}

R_BreakCommonPatterns ==
    /\ pc = "r_patterns"
    /\ password' \in breakCommonPatterns(password)
    /\ pc' = "r_sequential"
    /\ UNCHANGED <<trainVars, retrained, batch, config, counts, result>>

\* c.toLowerCase().charCodeAt(0)
lowerCode(c) == IF isUppercase(c) THEN CharCode(c) + 32 ELSE CharCode(c)

isAlphaSequential(char1, char2, char3) ==
    lowerCode(char2) = lowerCode(char1) + 1 /\ lowerCode(char3) = lowerCode(char2) + 1

isNumericSequential(char1, char2, char3) ==
    /\ isNumber(char1) /\ isNumber(char2) /\ isNumber(char3)
    /\ CharCode(char2) = CharCode(char1) + 1
    /\ CharCode(char3) = CharCode(char2) + 1

isSequential(char1, char2, char3) ==
    isAlphaSequential(char1, char2, char3) \/ isNumericSequential(char1, char2, char3)

\* the loop of avoidSequentialChars from index i (from 1) on
RECURSIVE avoidSequentialFrom(_, _)
avoidSequentialFrom(chars, i) ==
    IF i > Len(chars) - 2 THEN {chars}
    ELSE IF isSequential(chars[i], chars[i + 1], chars[i + 2])
         THEN UNION {avoidSequentialFrom([chars EXCEPT ![i + 1] = randomChar], i + 1) :
                        randomChar \in drawFrom(getAlternativeChars(chars[i + 1]))}
         ELSE avoidSequentialFrom(chars, i + 1)

avoidSequentialChars(pw) == avoidSequentialFrom(pw, 1)

R_AvoidSequential ==
    /\ pc = "r_sequential"
    /\ password' \in avoidSequentialChars(password)
    /\ pc' = "r_entropy"
    /\ UNCHANGED <<trainVars, retrained, batch, config, counts, result>>

\* the strings of n characters the appending loop of addEntropy draws in the model:
\* one draw from the charset, drawn again at every iteration
appendedDraws(n, charset) == {[i \in 1..n |-> x] : x \in drawFrom(charset)}

\* the strings RandomPasswordGenerator.addEntropy can return
randomAddEntropy(pw, cfg) ==
    IF below60(randomCalculateEntropy(pw))
    THEN LET needed == neededLength(getCharacterSetSize(cfg))
             additionalLength == Max(0, needed - Len(pw))
         IN {pw \o more : more \in appendedDraws(additionalLength, configCharset(cfg))}
    ELSE {pw}

\* RandomPasswordGenerator.calculateTimeToCrack: the time is 2^entropy / 10^12 seconds
randomTimeToCrack(entropy) == [bits |-> entropy]

\* the entropy step of applyHeuristics, the metrics and the return
R_Finish ==
    /\ pc = "r_entropy"
    /\ \E improved \in (IF below60(randomCalculateEntropy(password))
                        THEN randomAddEntropy(password, config) ELSE {password}) :
           /\ password' = improved
           /\ result' = Generated(improved, randomCalculateEntropy(improved),
                                  randomTimeToCrack(randomCalculateEntropy(improved)), "heuristic")
    /\ pc' = Finished
    /\ UNCHANGED <<trainVars, retrained, batch, config, counts>>

(***************************************************************************)
(* generateMultiplePasswords of both generators.                           *)
(***************************************************************************)
\* the call, up to the first test of its loop
B_Begin(generator, cfgs) ==
    /\ pc = "idle"
    /\ \E cfg \in cfgs, count \in 0..MaxBatch :
           /\ batch' = [generator |-> generator, count |-> count, passwords |-> <<>>]
           /\ config' = cfg
    /\ pc' = "b_loop"
    /\ UNCHANGED <<trainVars, retrained, password, counts, result>>

\* the test of the loop: the next generatePassword call, or the return of the array
B_Loop ==
    /\ pc = "b_loop"
    /\ IF Len(batch.passwords) < batch.count
       THEN IF batch.generator = "markov"
            THEN startMarkovPassword(config)
            ELSE startRandomPassword(config)
       ELSE /\ pc' = "done"
            /\ result' = [kind |-> "passwords", passwords |-> batch.passwords]
            /\ UNCHANGED <<config, password, counts>>
    /\ UNCHANGED <<trainVars, retrained, batch>>

\* passwords.push of what generatePassword returned; what it threw leaves the loop
B_Push ==
    /\ pc = "b_push"
    /\ IF result.kind = "password"
       THEN /\ batch' = [batch EXCEPT !.passwords = Append(@, result)]
            /\ pc' = "b_loop"
            /\ result' = NoResult
            /\ password' = <<>>
       ELSE /\ pc' = "done"
            /\ UNCHANGED <<batch, result, password>>
    /\ UNCHANGED <<trainVars, retrained, config, counts>>

(***************************************************************************)
(* PasswordComparisonAnalyzer (src/src/analysis/passwordComparison.ts).    *)
(* A JavaScript number is the fraction <<n, d>> with d > 0, or one of      *)
(* NotANumber, Infinity and NegInfinity.                                   *)
(***************************************************************************)
NotANumber == <<0, 0>>

Infinity == <<1, 0>>

NegInfinity == <<-1, 0>>

isFinite(x) == x[2] # 0

Num(n) == <<n, 1>>

\* -x
numNeg(x) == <<-x[1], x[2]>>

\* x + y: NaN when an operand is NaN or the operands are opposite infinities
numAdd(x, y) ==
    IF x = NotANumber \/ y = NotANumber THEN NotANumber
    ELSE IF isFinite(x) /\ isFinite(y) THEN FracAdd(x, y)
    ELSE IF isFinite(y) THEN x
    ELSE IF isFinite(x) THEN y
    ELSE IF x = y THEN x ELSE NotANumber

numSub(x, y) == numAdd(x, numNeg(y))

\* x * y: an infinity times zero is NaN
numMul(x, y) ==
    IF x = NotANumber \/ y = NotANumber THEN NotANumber
    ELSE IF isFinite(x) /\ isFinite(y) THEN Frac(x[1] * y[1], x[2] * y[2])
    ELSE IF x[1] = 0 \/ y[1] = 0 THEN NotANumber
    ELSE IF (x[1] > 0) = (y[1] > 0) THEN Infinity ELSE NegInfinity

\* x / y for y >= 0: 0 / 0 and an infinity over an infinity are NaN, a non-zero x
\* over 0 is an infinity
numDiv(x, y) ==
    IF x = NotANumber \/ y = NotANumber THEN NotANumber
    ELSE IF ~isFinite(x) THEN IF isFinite(y) THEN x ELSE NotANumber
    ELSE IF ~isFinite(y) THEN Num(0)
    ELSE IF y[1] = 0
         THEN IF x[1] = 0 THEN NotANumber ELSE IF x[1] > 0 THEN Infinity ELSE NegInfinity
         ELSE Frac(x[1] * y[2], x[2] * y[1])

\* x > y and x >= y: false when an operand is NaN
numGt(x, y) ==
    /\ x # NotANumber /\ y # NotANumber
    /\ IF isFinite(x) /\ isFinite(y) THEN x[1] * y[2] > y[1] * x[2]
       ELSE x # y /\ (x = Infinity \/ y = NegInfinity)

numGe(x, y) == x # NotANumber /\ y # NotANumber /\ (x = y \/ numGt(x, y))

\* Math.min and Math.max of two numbers
mathMin(x, y) ==
    IF x = NotANumber \/ y = NotANumber THEN NotANumber ELSE IF numGt(x, y) THEN y ELSE x

mathMax(x, y) ==
    IF x = NotANumber \/ y = NotANumber THEN NotANumber ELSE IF numGt(y, x) THEN y ELSE x

\* values.reduce((sum, v) => sum + v, 0)
RECURSIVE sumOf(_)
sumOf(values) == IF values = <<>> THEN Num(0) ELSE numAdd(values[1], sumOf(Tail(values)))

\* Math.min(...values) and Math.max(...values)
RECURSIVE minOf(_)
minOf(values) == IF values = <<>> THEN Infinity ELSE mathMin(values[1], minOf(Tail(values)))

RECURSIVE maxOf(_)
maxOf(values) == IF values = <<>> THEN NegInfinity ELSE mathMax(values[1], maxOf(Tail(values)))

\* [...values].sort((a, b) => a - b), for values other than NaN
RECURSIVE sortedCopy(_)
sortedCopy(values) ==
    IF values = <<>> THEN <<>>
    ELSE LET least == CHOOSE i \in 1..Len(values) :
                          \A j \in 1..Len(values) :
                              numGt(values[j], values[i]) \/ (values[j] = values[i] /\ i <= j)
         IN <<values[least]>>
            \o sortedCopy([k \in 1..(Len(values) - 1) |->
                              IF k < least THEN values[k] ELSE values[k + 1]])

\* sorted[i] for an index i from 0: undefined outside the array, and undefined + x is
\* NaN
at(sorted, i) == IF i >= 0 /\ i < Len(sorted) THEN sorted[i + 1] ELSE NotANumber

median(values) ==
    LET sorted == sortedCopy(values)
        n == Len(values)
    IN IF n % 2 = 0
       THEN numDiv(numAdd(at(sorted, n \div 2 - 1), at(sorted, n \div 2)), Num(2))
       ELSE at(sorted, n \div 2)

\* the variance whose square root calculateStandardDeviation returns
variance(values) ==
    LET mean == numDiv(sumOf(values), Num(Len(values)))
        squares == [i \in 1..Len(values) |->
                       numMul(numSub(values[i], mean), numSub(values[i], mean))]
    IN numDiv(sumOf(squares), Num(Len(values)))

\* Math.sqrt(variance), kept as the number it is the root of
calculateStandardDeviation(values) == [sqrtOf |-> variance(values)]

\* the number of elements of a sequence that satisfy a test
countWhere(values, test(_)) == Len(SelectSeq(values, test))

\* (count / n) * 100
percentageOf(count, n) == numMul(numDiv(Num(count), Num(n)), Num(100))

calculateEntropyStatistics(entropies) ==
    [average |-> numDiv(sumOf(entropies), Num(Len(entropies))),
     median |-> median(entropies),
     min |-> minOf(entropies),
     max |-> maxOf(entropies),
     standardDeviation |-> calculateStandardDeviation(entropies),
     above60Bits |-> countWhere(entropies, LAMBDA e : numGe(e, Num(60))),
     above60BitsPercentage |->
         percentageOf(countWhere(entropies, LAMBDA e : numGe(e, Num(60))), Len(entropies))]

calculateTimeStatistics(times) ==
    [average |-> numDiv(sumOf(times), Num(Len(times))),
     median |-> median(times),
     min |-> minOf(times),
     max |-> maxOf(times),
     above10Years |-> countWhere(times, LAMBDA t : numGe(t, Num(10))),
     above10YearsPercentage |->
         percentageOf(countWhere(times, LAMBDA t : numGe(t, Num(10))), Len(times))]

calculateStrengthDistribution(passwords) ==
    [level \in {"Very Weak", "Weak", "Average", "Strong", "Very Strong"} |->
        percentageOf(countWhere(passwords, LAMBDA p : p.strengthLevel = level), Len(passwords))]

\* String.prototype.toLowerCase
toLowerCase(s) ==
    [i \in 1..Len(s) |-> IF isUppercase(s[i]) THEN Ascii[CharCode(s[i]) + 1] ELSE s[i]]

\* String.prototype.includes
includes(s, word) ==
    \E i \in 1..(Len(s) - Len(word) + 1) : \A k \in 1..Len(word) : s[i + k - 1] = word[k]

commonWords ==
    {<<"p", "a", "s", "s", "w", "o", "r", "d">>, <<"a", "d", "m", "i", "n">>,
     <<"u", "s", "e", "r">>, <<"t", "e", "s", "t">>, <<"l", "o", "g", "i", "n">>,
     <<"w", "e", "l", "c", "o", "m", "e">>}

hasCommonWords(pw) ==
    LET lower == toLowerCase(pw)
    IN \E word \in commonWords : includes(lower, word)

vowels == {"a", "e", "i", "o", "u"}

consonants == Range(getLowercaseChars) \ vowels

hasPronounceablePatterns(pw) ==
    LET lower == toLowerCase(pw)
    IN \E i \in 1..(Len(lower) - 1) : lower[i] \in consonants /\ lower[i + 1] \in vowels

hasReasonableLength(pw) == Len(pw) >= 8 /\ Len(pw) <= 20

\* a test that counts exactly 30% of symbols as excessive
hasExcessiveSymbols_atThreshold(pw) ==
    10 * Len(SelectSeq(pw, LAMBDA c : ~isLowercase(c) /\ ~isUppercase(c) /\ ~isNumber(c)))
        >= 3 * Len(pw)

\* symbolCount > password.length * 0.3
hasExcessiveSymbols(pw) ==
    10 * Len(SelectSeq(pw, LAMBDA c : ~isLowercase(c) /\ ~isUppercase(c) /\ ~isNumber(c)))
        > 3 * Len(pw)

hasMixedCase(pw) ==
    (\E i \in 1..Len(pw) : isLowercase(pw[i])) /\ (\E i \in 1..Len(pw) : isUppercase(pw[i]))

\* the score calculateReadabilityScore gives one password
readabilityOf(pw) ==
    (IF hasCommonWords(pw) THEN 2 ELSE 0) + (IF hasPronounceablePatterns(pw) THEN 1 ELSE 0)
    + (IF hasReasonableLength(pw) THEN 1 ELSE 0) + (IF ~hasExcessiveSymbols(pw) THEN 1 ELSE 0)
    + (IF hasMixedCase(pw) THEN 1 ELSE 0)

getReadabilityDescription(score) ==
    IF numGe(score, Num(4)) THEN "Very Readable"
    ELSE IF numGe(score, Num(3)) THEN "Readable"
    ELSE IF numGe(score, Num(2)) THEN "Moderately Readable"
    ELSE IF numGe(score, Num(1)) THEN "Less Readable"
    ELSE "Not Readable"

calculateReadabilityScore(passwords) ==
    LET totalScore == sumOf([i \in 1..Len(passwords) |-> Num(readabilityOf(passwords[i].password))])
        maxScore == Num(Len(passwords) * 6)
    IN [averageScore |-> numDiv(totalScore, Num(Len(passwords))),
        percentage |-> numMul(numDiv(totalScore, maxScore), Num(100)),
        description |-> getReadabilityDescription(numDiv(totalScore, Num(Len(passwords))))]

calculateSecurityCompliance(passwords) ==
    LET total == Len(passwords)
        entropyAbove60Bits == countWhere(passwords, LAMBDA p : numGe(p.entropy, Num(60)))
        timeAbove10Years == countWhere(passwords, LAMBDA p : numGe(p.timeToCrack.years, Num(10)))
        bothRequirementsMet ==
            countWhere(passwords, LAMBDA p : numGe(p.entropy, Num(60))
                                             /\ numGe(p.timeToCrack.years, Num(10)))
    IN [entropyAbove60Bits |-> entropyAbove60Bits,
        entropyAbove60BitsPercentage |-> percentageOf(entropyAbove60Bits, total),
        timeAbove10Years |-> timeAbove10Years,
        timeAbove10YearsPercentage |-> percentageOf(timeAbove10Years, total),
        bothRequirementsMet |-> bothRequirementsMet,
        bothRequirementsMetPercentage |-> percentageOf(bothRequirementsMet, total)]

calculateStatistics(passwords) ==
    [count |-> Len(passwords),
     entropy |-> calculateEntropyStatistics([i \in 1..Len(passwords) |-> passwords[i].entropy]),
     crackingTime |->
         calculateTimeStatistics([i \in 1..Len(passwords) |-> passwords[i].timeToCrack.years]),
     strengthDistribution |-> calculateStrengthDistribution(passwords),
     readabilityScore |-> calculateReadabilityScore(passwords),
     securityCompliance |-> calculateSecurityCompliance(passwords)]

\* a metric that names the Markov batch better on a tie too
comparisonMetric_tieToMarkov(random, markov) ==
    [random |-> random, markov |-> markov, difference |-> numSub(markov, random),
     better |-> IF numGe(markov, random) THEN "markov" ELSE "random"]

\* one ComparisonMetric of generateComparison
comparisonMetric(random, markov) ==
    [random |-> random, markov |-> markov, difference |-> numSub(markov, random),
     better |-> IF numGt(markov, random) THEN "markov" ELSE "random"]

generateComparison(randomStats, markovStats) ==
    [entropyComparison |->
         comparisonMetric(randomStats.entropy.average, markovStats.entropy.average),
     timeComparison |->
         comparisonMetric(randomStats.crackingTime.average, markovStats.crackingTime.average),
     readabilityComparison |->
         comparisonMetric(randomStats.readabilityScore.averageScore,
                          markovStats.readabilityScore.averageScore),
     securityComplianceComparison |->
         comparisonMetric(randomStats.securityCompliance.bothRequirementsMetPercentage,
                          markovStats.securityCompliance.bothRequirementsMetPercentage)]

\* an overall score without the caps of the entropy and time axes
calculateOverallScore_uncapped(stats) ==
    numAdd(numAdd(numMul(numDiv(stats.entropy.average, Num(60)), Num(25)),
                  numMul(numDiv(stats.crackingTime.average, Num(10)), Num(25))),
           numAdd(numMul(numDiv(stats.readabilityScore.percentage, Num(100)), Num(25)),
                  numMul(numDiv(stats.securityCompliance.bothRequirementsMetPercentage,
                                Num(100)), Num(25))))

calculateOverallScore(stats) ==
    LET entropyScore == numMul(mathMin(numDiv(stats.entropy.average, Num(60)), Num(1)), Num(25))
        timeScore ==
            numMul(mathMin(numDiv(stats.crackingTime.average, Num(10)), Num(1)), Num(25))
        readabilityScore == numMul(numDiv(stats.readabilityScore.percentage, Num(100)), Num(25))
        complianceScore ==
            numMul(numDiv(stats.securityCompliance.bothRequirementsMetPercentage, Num(100)),
                   Num(25))
    IN numAdd(numAdd(numAdd(entropyScore, timeScore), readabilityScore), complianceScore)

\* the sentence generateRecommendations pushes for one comparison
recommendation(markovValue, randomValue, markovText, randomText) ==
    IF numGt(markovValue, randomValue) THEN markovText ELSE randomText

generateRecommendations(randomStats, markovStats) ==
    LET randomScore == calculateOverallScore(randomStats)
        markovScore == calculateOverallScore(markovStats)
    IN [recommendations |->
            << recommendation(markovStats.entropy.average, randomStats.entropy.average,
                   "Markov approach generates passwords with higher average entropy",
                   "Random approach generates passwords with higher average entropy"),
               recommendation(markovStats.crackingTime.average, randomStats.crackingTime.average,
                   "Markov approach generates passwords with longer average cracking time",
                   "Random approach generates passwords with longer average cracking time"),
               recommendation(markovStats.readabilityScore.averageScore,
                   randomStats.readabilityScore.averageScore,
                   "Markov approach generates more readable passwords",
                   "Random approach generates more readable passwords"),
               recommendation(markovStats.securityCompliance.bothRequirementsMetPercentage,
                   randomStats.securityCompliance.bothRequirementsMetPercentage,
                   "Markov approach better meets security requirements (60+ bits, 10+ years)",
                   "Random approach better meets security requirements (60+ bits, 10+ years)"),
               recommendation(markovScore, randomScore,
                   "Overall recommendation: Markov approach is better for this use case",
                   "Overall recommendation: Random approach is better for this use case") >>,
        overallWinner |-> IF numGt(markovScore, randomScore) THEN "markov" ELSE "random",
        randomScore |-> randomScore,
        markovScore |-> markovScore]

compareApproaches(randomPasswords, markovPasswords) ==
    LET randomStats == calculateStatistics(randomPasswords)
        markovStats == calculateStatistics(markovPasswords)
    IN [random |-> randomStats,
        markov |-> markovStats,
        comparison |-> generateComparison(randomStats, markovStats),
        recommendations |-> generateRecommendations(randomStats, markovStats)]

\* an array of records sorted in place by entropy, as passwords.sort would leave it
RECURSIVE passwordsAfterStatistics_sortedInPlace(_)
passwordsAfterStatistics_sortedInPlace(passwords) ==
    IF passwords = <<>> THEN <<>>
    ELSE LET least == CHOOSE i \in 1..Len(passwords) :
                          \A j \in 1..Len(passwords) :
                              \/ numGt(passwords[j].entropy, passwords[i].entropy)
                              \/ passwords[j].entropy = passwords[i].entropy /\ i <= j
         IN <<passwords[least]>>
            \o passwordsAfterStatistics_sortedInPlace(
                   [k \in 1..(Len(passwords) - 1) |->
                       IF k < least THEN passwords[k] ELSE passwords[k + 1]])

\* the caller's array after calculateStatistics(passwords): map, reduce, filter, forEach
\* and the spread in Math.min(...) and [...entropies] read it or copy it, sort is
\* called on the copies, and no statement assigns to an element or to a field of one
passwordsAfterStatistics(passwords) == passwords

\* the comparison of two batches: the arguments as the caller passed them, the two
\* arrays as the call leaves them, and the returned analysis
Compare(batches) ==
    /\ pc = "idle"
    /\ \E randomPasswords \in batches, markovPasswords \in batches :
           result' = [kind |-> "comparison",
                      arguments |-> <<randomPasswords, markovPasswords>>,
                      randomPasswords |-> passwordsAfterStatistics(randomPasswords),
                      markovPasswords |-> passwordsAfterStatistics(markovPasswords),
                      analysis |-> compareApproaches(randomPasswords, markovPasswords)]
    /\ pc' = "done"
    /\ UNCHANGED <<trainVars, retrained, batch, config, password, counts>>

(***************************************************************************)
(* Training inputs.                                                        *)
(***************************************************************************)
\* characters of the training passwords TrainAny enumerates
TrainChars == {"a", "s"}

\* orders TrainAny enumerates
TrainOrders == {1, 2}

\* the corpora of non-empty passwords over TrainChars with at most t characters
RECURSIVE CorporaUpTo(_)
CorporaUpTo(t) ==
    {<<>>} \cup UNION {{<<pw>> \o rest : pw \in [1..k -> TrainChars], rest \in CorporaUpTo(t - k)}
                        : k \in 1..t}

TrainCorpora == CorporaUpTo(MaxCorpusChars)

TrainAny ==
    \E passwords \in TrainCorpora, ord \in TrainOrders : trainModel(passwords, ord)

Init ==
    /\ model = <<>>
    /\ startStates = <<>>
    /\ order = 1
    /\ trainingData = <<>>
    /\ retrained = FALSE
    /\ pc = "idle"
    /\ config = NoConfig
    /\ password = <<>>
    /\ counts = NoCounts
    /\ result = NoResult
    /\ batch = NoBatch

NextTrain == TrainAny

SpecTrain == Init /\ [][NextTrain]_vars

\* the corpora and orders the generation specifications train the generator on:
\* dead ends and a character outside every pool; a branching state and a cycle;
\* an order above 1 whose second state is absent from the table
MarkovTrainings ==
    { << << <<"a", "O">>, <<"0", "(">>, <<"~", "l">> >>, 1 >>,
      << << <<"a", "2", "a", "!">> >>, 1 >>,
      << << <<"a", "O", "~", "A">> >>, 2 >> }

\* the first training of a new generator
TrainFirst ==
    /\ trainingData = <<>> /\ model = <<>>
    /\ \E t \in MarkovTrainings : trainModel(t[1], t[2])

MarkovGenerate == M_Begin(Configs)

NextMarkov ==
    \/ TrainFirst
    \/ MarkovGenerate
    \/ M_ChainStep
    \/ M_PadStep
    \/ M_Sanitize
    \/ M_EnsureCategories
    \/ M_EnsureSymbols
    \/ M_EnsureNumbers
    \/ M_Finish
    \/ Return

SpecMarkov == Init /\ [][NextMarkov]_vars

\* the configurations handed to the heuristic generator
RandomConfigs ==
    [length : 1..MaxRandomLen, includeUppercase : BOOLEAN, includeLowercase : BOOLEAN,
     includeNumbers : BOOLEAN, includeSymbols : BOOLEAN, avoidSimilar : BOOLEAN,
     avoidAmbiguous : BOOLEAN]

RandomGenerate == R_Begin(RandomConfigs)

NextRandom ==
    \/ RandomGenerate
    \/ R_EnsureCategories
    \/ R_BreakCommonPatterns
    \/ R_AvoidSequential
    \/ R_Finish
    \/ Return

SpecRandom == Init /\ [][NextRandom]_vars

\* the steps of a MarkovPasswordGenerator.generatePassword call in progress
MarkovSteps ==
    \/ M_ChainStep
    \/ M_PadStep
    \/ M_Sanitize
    \/ M_EnsureCategories
    \/ M_EnsureSymbols
    \/ M_EnsureNumbers
    \/ M_Finish

\* the steps of a RandomPasswordGenerator.generatePassword call in progress
RandomSteps ==
    \/ R_EnsureCategories
    \/ R_BreakCommonPatterns
    \/ R_AvoidSequential
    \/ R_Finish

\* the configurations of the calls whose termination is examined: a lowercase one, a
\* digits-only one without similar characters, one with symbols and digits, and
\* a one-character one with symbols
ShortConfigs ==
    {[length |-> 2, includeUppercase |-> FALSE, includeLowercase |-> TRUE,
      includeNumbers |-> FALSE, includeSymbols |-> FALSE,
      avoidSimilar |-> FALSE, avoidAmbiguous |-> FALSE],
     [length |-> 2, includeUppercase |-> FALSE, includeLowercase |-> FALSE,
      includeNumbers |-> TRUE, includeSymbols |-> FALSE,
      avoidSimilar |-> TRUE, avoidAmbiguous |-> FALSE],
     [length |-> 2, includeUppercase |-> FALSE, includeLowercase |-> FALSE,
      includeNumbers |-> TRUE, includeSymbols |-> TRUE,
      avoidSimilar |-> FALSE, avoidAmbiguous |-> TRUE],
     [length |-> 1, includeUppercase |-> FALSE, includeLowercase |-> FALSE,
      includeNumbers |-> FALSE, includeSymbols |-> TRUE,
      avoidSimilar |-> FALSE, avoidAmbiguous |-> FALSE]}

MarkovGenerateShort == M_Begin(ShortConfigs)

RandomGenerateShort == R_Begin(ShortConfigs)

NextCall ==
    \/ TrainFirst
    \/ MarkovGenerateShort
    \/ RandomGenerateShort
    \/ MarkovSteps
    \/ RandomSteps
    \/ Return

SpecCall == Init /\ [][NextCall]_vars

\* a call in progress takes its next step
FairSpecCall == SpecCall /\ WF_vars(MarkovSteps \/ RandomSteps)

\* the configurations handed to generateMultiplePasswords
BatchConfigs == {cfg \in ShortConfigs : ~(cfg.includeNumbers /\ cfg.includeSymbols)}

MarkovGenerateMultiple == B_Begin("markov", BatchConfigs)

RandomGenerateMultiple == B_Begin("heuristic", BatchConfigs)

NextBatch ==
    \/ TrainFirst
    \/ MarkovGenerateMultiple
    \/ RandomGenerateMultiple
    \/ B_Loop
    \/ B_Push
    \/ MarkovSteps
    \/ RandomSteps
    \/ Return

SpecBatch == Init /\ [][NextBatch]_vars

FairSpecBatch == SpecBatch /\ WF_vars(B_Loop \/ B_Push \/ MarkovSteps \/ RandomSteps)

\* trainings and Markov generations in any order
NextRetrain ==
    \/ TrainAny
    \/ MarkovGenerateShort
    \/ MarkovSteps
    \/ Return

SpecRetrain == Init /\ [][NextRetrain]_vars

\* the configurations that enable no category
NoCategoryConfigs == {cfg \in Configs : ~SomeCategory(cfg)}

MarkovGenerateAnyFlags == M_Begin(NoCategoryConfigs \cup ShortConfigs)

RandomGenerateAnyFlags == R_Begin(NoCategoryConfigs \cup ShortConfigs)

\* calls of both generators, with and without an enabled category
NextAnyFlags ==
    \/ TrainFirst
    \/ MarkovGenerateAnyFlags
    \/ RandomGenerateAnyFlags
    \/ MarkovSteps
    \/ RandomSteps
    \/ Return

SpecAnyFlags == Init /\ [][NextAnyFlags]_vars

\* characters of the short passwords handed to calculateEntropy
EntropyChars == {"a", "A", "2", "!"}

\* the passwords handed to calculateEntropy: the beginnings of the printable
\* characters and of the letters, every password over EntropyChars of up to
\* MaxEntropyLen characters, and "aaaa"
EntropyInputs ==
    {SubSeq(Ascii, 1, n) : n \in 0..Len(Ascii)}
    \cup {SubSeq(getLowercaseChars \o getUppercaseChars, 1, n) : n \in 1..52}
    \cup UNION {[1..n -> EntropyChars] : n \in 1..MaxEntropyLen}
    \cup {<<"a", "a", "a", "a">>}

\* calculateEntropy of both generators on one password
MeasureEntropy ==
    /\ pc = "idle"
    /\ \E pw \in EntropyInputs :
           /\ password' = pw
           /\ result' = [kind |-> "entropy", markov |-> calculateEntropy(pw),
                         heuristic |-> randomCalculateEntropy(pw)]
    /\ pc' = "done"
    /\ UNCHANGED <<trainVars, retrained, batch, config, counts>>

NextEntropy ==
    \/ MeasureEntropy
    \/ Return

SpecEntropy == Init /\ [][NextEntropy]_vars

\* the lengths of the lowercase configurations whose records fall in each of the
\* five strength bins
StrengthLengths == {1, 7, 9, 11, 13}

StrengthConfigs ==
    {[length |-> n, includeUppercase |-> FALSE, includeLowercase |-> TRUE,
      includeNumbers |-> FALSE, includeSymbols |-> FALSE,
      avoidSimilar |-> FALSE, avoidAmbiguous |-> FALSE] : n \in StrengthLengths}

MarkovGenerateStrength == M_Begin(StrengthConfigs)

RandomGenerateStrength == R_Begin({cfg \in StrengthConfigs : cfg.length <= 9})

\* calls of both generators that return records of every strength
NextStrength ==
    \/ TrainFirst
    \/ MarkovGenerateStrength
    \/ RandomGenerateStrength
    \/ MarkovSteps
    \/ RandomSteps
    \/ Return

SpecStrength == Init /\ [][NextStrength]_vars

\* the arrays compareApproaches is called with hold at most MaxCompare records
MaxCompare == 2

\* a password of 160 characters of all four categories: 94^160 is beyond the largest
\* double, and calculateTimeToCrack returns Infinity years for it
LongPassword == [i \in 1..160 |-> <<"a", "B", "2", "!">>[(i % 4) + 1]]

\* GeneratedPassword records, entropies rounded to whole bits
SampleRecords ==
    << [password |-> <<"u", "s", "e", "r">>, entropy |-> Num(19),
        timeToCrack |-> [years |-> Num(0)], strengthLevel |-> "Very Weak",
        generationMethod |-> "markov"],
       [password |-> <<"P", "a", "s", "s", "w", "o", "r", "d", "1", "!">>, entropy |-> Num(66),
        timeToCrack |-> [years |-> Frac(17, 10)], strengthLevel |-> "Very Strong",
        generationMethod |-> "markov"],
       [password |-> <<"!", "(", "!", "(">>, entropy |-> Num(20),
        timeToCrack |-> [years |-> Num(0)], strengthLevel |-> "Very Weak",
        generationMethod |-> "random"],
       [password |-> <<"a", "B", "2", "!", "a", "B", "2", "!", "a", "B", "2", "!">>,
        entropy |-> Num(79), timeToCrack |-> [years |-> Num(15082)],
        strengthLevel |-> "Very Strong", generationMethod |-> "random"],
       [password |-> LongPassword, entropy |-> Num(1049),
        timeToCrack |-> [years |-> Infinity], strengthLevel |-> "Very Strong",
        generationMethod |-> "random"] >>

\* the arrays of at most MaxCompare sample records, the samples of an array in the
\* order of SampleRecords, which is not the order of their entropies
SampleBatches ==
    UNION {{[i \in 1..n |-> SampleRecords[pick[i]]] :
               pick \in {f \in [1..n -> 1..Len(SampleRecords)] :
                             \A i \in 1..n, j \in 1..n : i < j => f[i] <= f[j]}} :
           n \in 0..MaxCompare}

CompareBatches == Compare(SampleBatches)

\* calls of compareApproaches
NextCompare ==
    \/ CompareBatches
    \/ Return

SpecCompare == Init /\ [][NextCompare]_vars

\* passwords on both sides of each readability test: the six common words in either
\* case, 30% and 40% of symbols, lengths 7, 8, 20 and 21, and the empty password
ReadabilityInputs ==
    { <<>>,
      <<"u", "s", "e", "r">>,
      <<"U", "S", "E", "R", "1", "2", "3", "4">>,
      <<"P", "a", "s", "s", "w", "o", "r", "d", "1", "!">>,
      <<"a", "d", "m", "i", "n">>,
      <<"x", "t", "e", "s", "t", "x">>,
      <<"L", "o", "G", "i", "N">>,
      <<"w", "e", "l", "c", "o", "m", "e", "1">>,
      <<"!", "(", "!", "(">>,
      <<"b", "c", "d", "f", "g", "h", "j", "k">>,
      <<"a", "b", "c", "d", "e", "f", "g", "!", "!", "!">>,
      <<"a", "b", "c", "d", "e", "f", "!", "!", "!", "!">>,
      <<"B", "a">>,
      <<"a", "B">>,
      [i \in 1..7 |-> "z"],
      [i \in 1..20 |-> "z"],
      [i \in 1..21 |-> "z"] }

\* a GeneratedPassword of which calculateReadabilityScore reads the password only
ReadabilityRecord(pw) ==
    [password |-> pw, entropy |-> Num(0), timeToCrack |-> [years |-> Num(0)],
     strengthLevel |-> "Very Weak", generationMethod |-> "random"]

ReadabilityBatches ==
    UNION {[1..n -> {ReadabilityRecord(pw) : pw \in ReadabilityInputs}] : n \in 0..MaxCompare}

\* calculateReadabilityScore on one array, as calculateStatistics calls it
MeasureReadability ==
    /\ pc = "idle"
    /\ \E passwords \in ReadabilityBatches :
           result' = [kind |-> "readability", passwords |-> passwords,
                      readabilityScore |-> calculateReadabilityScore(passwords)]
    /\ pc' = "done"
    /\ UNCHANGED <<trainVars, retrained, batch, config, password, counts>>

NextReadability ==
    \/ MeasureReadability
    \/ Return

SpecReadability == Init /\ [][NextReadability]_vars

\* trainings, generatePassword calls and generateMultiplePasswords calls of the Markov
\* generator in any order
NextLifecycle ==
    \/ TrainAny
    \/ MarkovGenerateShort
    \/ MarkovGenerateMultiple
    \/ B_Loop
    \/ B_Push
    \/ MarkovSteps
    \/ Return

SpecLifecycle == Init /\ [][NextLifecycle]_vars

\* characters of the windows avoidSequentialChars is examined on: letters of both
\* cases, digits, symbols of the symbol pool with consecutive codes, and the
\* characters next to the letters and the digits in code order
SequentialChars == {"a", "b", "c", "B", "y", "z", "{", "1", "2", "3", "/", "0", "#", "$", "%"}

\* avoidSequentialChars on one window of three characters
AvoidSequentialWindow ==
    /\ pc = "idle"
    /\ \E pw \in [1..3 -> SequentialChars] :
           /\ password' = pw
           /\ \E improved \in avoidSequentialChars(pw) :
                  result' = [kind |-> "sequential", value |-> improved]
    /\ pc' = "done"
    /\ UNCHANGED <<trainVars, retrained, batch, config, counts>>

NextSequential ==
    \/ AvoidSequentialWindow
    \/ Return

SpecSequential == Init /\ [][NextSequential]_vars

\* the passwords the pattern-breaking steps are examined on hold at most MaxPatternLen
\* characters
MaxPatternLen == 4

\* characters of the four pools: letters, digits and symbols with consecutive codes
PatternChars == {"a", "b", "c", "B", "1", "2", "3", "#", "$", "%"}

\* passwords with and without runs and sequences, and one with a run followed by a
\* sequence
PatternInputs ==
    UNION {[1..n -> PatternChars] : n \in 3..MaxPatternLen}
    \cup {<<"a", "a", "a", "1", "2", "3">>}

\* breakCommonPatterns, then avoidSequentialChars, as applySecurityImprovements calls
\* them
BreakPatterns ==
    /\ pc = "idle"
    /\ \E pw \in PatternInputs :
           /\ password' = pw
           /\ \E broken \in breakCommonPatterns(pw) :
                  \E improved \in avoidSequentialChars(broken) :
                      result' = [kind |-> "patterns", broken |-> broken, improved |-> improved]
    /\ pc' = "done"
    /\ UNCHANGED <<trainVars, retrained, batch, config, counts>>

NextPatterns ==
    \/ BreakPatterns
    \/ Return

SpecPatterns == Init /\ [][NextPatterns]_vars

(***************************************************************************)
(* calculateEntropy on a password and on the same password with one more   *)
(* character.                                                              *)
(***************************************************************************)
AppendChars == {"a", "Z", "9", "~"}

\* calculateEntropy of p and of p + c: the alphabet size and the entropy of each
AppendAndMeasure ==
    /\ pc = "idle"
    /\ \E p \in EntropyInputs \ {<<>>}, c \in AppendChars :
           /\ password' = p \o <<c>>
           /\ result' = [kind |-> "appended", appended |-> c,
                         sizeBefore |-> effectiveCharsetSize(p),
                         sizeAfter |-> effectiveCharsetSize(p \o <<c>>),
                         entropyBefore |-> calculateEntropy(p),
                         entropyAfter |-> randomCalculateEntropy(p \o <<c>>)]
    /\ pc' = "done"
    /\ UNCHANGED <<trainVars, retrained, batch, config, counts>>

NextAppend ==
    \/ AppendAndMeasure
    \/ Return

SpecAppend == Init /\ [][NextAppend]_vars

Next == NextTrain \/ NextMarkov \/ NextRandom \/ NextBatch

Spec == Init /\ [][Next]_vars

(***************************************************************************)
(* Claims about trainModel, checked under SpecTrain.                       *)
(***************************************************************************)
EmptyTables == [startStates |-> <<>>, model |-> <<>>]

Eligible(passwords, ord) == {k \in 1..Len(passwords) : Len(passwords[k]) >= ord + 1}

\* how many eligible passwords begin with s
StartCount(passwords, ord, s) ==
    Cardinality({k \in Eligible(passwords, ord) : SubSeq(passwords[k], 1, ord) = s})

\* the places <<k, i>> of the corpus where s is followed by c
FollowedBy(passwords, ord, s, c) ==
    {ki \in UNION {{<<k, i>> : i \in 1..(Len(passwords[k]) - ord)} : k \in Eligible(passwords, ord)} :
        /\ SubSeq(passwords[ki[1]], ki[2], ki[2] + ord - 1) = s
        /\ passwords[ki[1]][ki[2] + ord] = c}

CorpusChars(passwords) == UNION {Range(passwords[k]) : k \in 1..Len(passwords)}

NoDuplicateKeys(m) == \A i, j \in 1..Len(m) : m[i][1] = m[j][1] => i = j

C10_TrainingReplacesModel ==
    [startStates |-> startStates, model |-> model]
        = normalizeProbabilities(recordPasswords(EmptyTables, trainingData, order, 1))

\* C10 witness: a model trained by a call that found a non-empty model in place
C10_Witness == retrained /\ model # <<>>


(***************************************************************************)
(* Claims about MarkovPasswordGenerator.generatePassword, checked under    *)
(* SpecMarkov.                                                             *)
(***************************************************************************)
\* a password the Markov generator has returned for `config`
MarkovReturned == result.kind = "password" /\ result.generationMethod = "markov"

\* C1: the password MarkovPasswordGenerator.generatePassword returns has exactly
\* config.length characters
C1_MarkovLengthExact ==
    MarkovReturned => Len(result.password) = config.length

\* C1 witness: a password returned although the start state alone is longer than
\* config.length
C1_Witness ==
    MarkovReturned /\ order > config.length

\* c is a character of an enabled category (lowercase when none is enabled) that the
\* configuration does not exclude
AllowedByConfig(c, cfg) ==
    /\ \/ cfg.includeLowercase /\ InSeq(c, getLowercaseChars)
       \/ cfg.includeUppercase /\ InSeq(c, getUppercaseChars)
       \/ cfg.includeNumbers /\ InSeq(c, getNumberChars)
       \/ cfg.includeSymbols /\ InSeq(c, getSymbolChars)
       \/ ~SomeCategory(cfg) /\ InSeq(c, getLowercaseChars)
    /\ cfg.avoidSimilar => ~InSeq(c, similarChars)
    /\ cfg.avoidAmbiguous => ~InSeq(c, ambiguousChars)

\* C3: every character of a password the Markov generator returns belongs to the
\* allowed pool of the configuration: an enabled category, no similar character when
\* avoidSimilar, no ambiguous character when avoidAmbiguous
C3_MarkovCharsAllowed ==
    MarkovReturned =>
        \A i \in 1..Len(result.password) : AllowedByConfig(result.password[i], config)

\* C3 witness: a password returned under both exclusions by a generator whose corpus
\* holds similar and ambiguous characters, with a category the corpus lacks enabled
C3_Witness ==
    /\ MarkovReturned
    /\ config.avoidSimilar /\ config.avoidAmbiguous /\ config.includeUppercase
    /\ trainingData = << <<"a", "O">>, <<"0", "(">>, <<"~", "l">> >>

\* the sum of the minimum counts of the enabled categories
MinimumTotal(cfg) ==
    (IF cfg.includeUppercase THEN 1 ELSE 0) + (IF cfg.includeLowercase THEN 1 ELSE 0)
    + (IF cfg.includeNumbers THEN 2 ELSE 0) + (IF cfg.includeSymbols THEN 2 ELSE 0)

EnoughSymbolsAndNumbers ==
    /\ config.includeSymbols => CountType(result.password, "symbols") >= 2
    /\ config.includeNumbers => CountType(result.password, "numbers") >= 2

\* C5 as stated: for every config.length >= 1 a password the Markov generator returns
\* holds at least 2 symbols when includeSymbols and at least 2 digits when
\* includeNumbers
C5_Original ==
    MarkovReturned => EnoughSymbolsAndNumbers

\* C5 amended: the same, for the configurations whose length is at least the sum of
\* the minimum counts of the enabled categories
C5_MarkovMinimumsWhenRoom ==
    (MarkovReturned /\ config.length >= MinimumTotal(config)) => EnoughSymbolsAndNumbers

\* C5 witness: a password returned with another category beside symbols enabled and
\* just enough room for the minimums
C5_Witness ==
    /\ MarkovReturned
    /\ config.includeSymbols /\ (config.includeLowercase \/ config.includeNumbers)
    /\ config.length = MinimumTotal(config)

\* C6: every generatePassword call that has started comes to its end
C6_GenerationTerminates ==
    (pc # "idle") ~> (pc = "done")

(***************************************************************************)
(* Claims about RandomPasswordGenerator.generatePassword, checked under    *)
(* SpecRandom.                                                             *)
(***************************************************************************)
\* a password the heuristic generator has returned for `config`
RandomReturned == result.kind = "password" /\ result.generationMethod = "heuristic"

\* C2: the password RandomPasswordGenerator.generatePassword returns has exactly
\* config.length characters
C2_RandomLengthExact ==
    RandomReturned => Len(result.password) = config.length

\* C4: every character of a password the heuristic generator returns belongs to the
\* allowed pool of the configuration
C4_RandomCharsAllowed ==
    RandomReturned =>
        \A i \in 1..Len(result.password) : AllowedByConfig(result.password[i], config)

(***************************************************************************)
(* Claims about generateMultiplePasswords, checked under FairSpecBatch.    *)
(***************************************************************************)
\* C7: generateMultiplePasswords of either generator, called with a configuration
\* that enables a category (on a trained model for the Markov generator), returns,
\* and returns exactly the requested number of passwords
C7_BatchReturnsCount ==
    (pc = "b_loop" /\ (batch.generator = "heuristic" \/ model # <<>>))
        ~> (pc = "done" /\ result.kind = "passwords"
                       /\ Len(result.passwords) = batch.count)

(***************************************************************************)
(* Claims about generation on an empty table, checked under SpecRetrain.   *)
(***************************************************************************)
\* C11: a corpus without a password of order + 1 characters (the empty corpus, and
\* before any training) leaves the transition table empty, trainModel itself ends
\* without an error, and on an empty table MarkovPasswordGenerator.generatePassword
\* throws the untrained-model error and returns no password
C11_UntrainedModelError ==
    /\ Eligible(trainingData, order) = {} => model = <<>>
    /\ pc = "idle" => result = NoResult
    /\ model = <<>> =>
           /\ pc \in {"idle", "done"}
           /\ pc = "done" =>
                  result = Thrown("Markov model not trained. Call trainModel() first.")

\* C11 witness: the error thrown after a training on passwords that are all too
\* short replaced a non-empty model
C11_Witness ==
    /\ pc = "done" /\ result.kind = "error"
    /\ retrained /\ trainingData # <<>> /\ model = <<>>

(***************************************************************************)
(* Claims about configurations without a category, checked under           *)
(* SpecAnyFlags.                                                           *)
(***************************************************************************)
\* a generatePassword call with all four inclusion flags false has ended
NoCategoryCallEnded == pc = "done" /\ config # NoConfig /\ ~SomeCategory(config)

\* C12 as stated: with all four inclusion flags false, generatePassword of either
\* generator raises an error and returns no password
C12_Original ==
    NoCategoryCallEnded => result.kind = "error"

\* C12 amended: with all four inclusion flags false the heuristic generator throws
\* "No character set available for password generation" before drawing anything,
\* while the trained Markov generator throws nothing and returns config.length
\* lowercase letters (an untrained one throws the untrained-model error)
C12_NoCategoryOutcome ==
    /\ pc \in {"r_categories", "r_patterns", "r_sequential", "r_entropy"} => SomeCategory(config)
    /\ (pc \notin {"idle", "done"} /\ ~SomeCategory(config)) => result = NoResult
    /\ NoCategoryCallEnded =>
           \/ result = Thrown("No character set available for password generation")
           \/ /\ model = <<>>
              /\ result = Thrown("Markov model not trained. Call trainModel() first.")
           \/ /\ model # <<>>
              /\ MarkovReturned
              /\ Len(result.password) = config.length
              /\ \A i \in 1..Len(result.password) : isLowercase(result.password[i])

\* C12 witness: a password returned by the trained Markov generator for a
\* configuration with all four inclusion flags false
C12_Witness ==
    NoCategoryCallEnded /\ MarkovReturned /\ model # <<>>

(***************************************************************************)
(* Claims about calculateEntropy, checked under SpecEntropy.               *)
(***************************************************************************)
\* the number of distinct characters of pw
ObservedSize(pw) == Cardinality({pw[i] : i \in 1..Len(pw)})

\* 26 for a lowercase letter, 26 for an uppercase letter, 10 for a digit and 32 for
\* any other character, each counted when it occurs in pw
TheoreticalSize(pw) ==
    LET occurs(set) == \E i \in 1..Len(pw) : pw[i] \in set
        lower == Range(getLowercaseChars)
        upper == Range(getUppercaseChars)
        digits == Range(getNumberChars)
    IN (IF occurs(lower) THEN 26 ELSE 0) + (IF occurs(upper) THEN 26 ELSE 0)
       + (IF occurs(digits) THEN 10 ELSE 0)
       + (IF occurs(Range(Ascii) \ (lower \cup upper \cup digits)) THEN 32 ELSE 0)

\* the effective alphabet size the specification gives
EffectiveSize(pw) ==
    IF ObservedSize(pw) >= 26 THEN ObservedSize(pw)
    ELSE Max(ObservedSize(pw), TheoreticalSize(pw))

\* C13: for a non-empty password, calculateEntropy of both generators is
\* length * log2(effective size), the effective size being the number of distinct
\* characters when that is 26 or more and max(distinct, theoretical) otherwise; for
\* "aaaa" it is 4 * log2(26)
C13_EntropyEffectiveSize ==
    (result.kind = "entropy" /\ password # <<>>) =>
        /\ result.markov = Len(password) * Log2Micro[EffectiveSize(password)]
        /\ result.heuristic = result.markov
        /\ password = <<"a", "a", "a", "a">> => result.markov = 4 * Log2Micro[26]

\* C13 witness: an entropy computed from 26 or more distinct characters whose
\* categories would give a larger theoretical size
C13_Witness ==
    /\ result.kind = "entropy"
    /\ ObservedSize(password) >= 26
    /\ TheoreticalSize(password) > ObservedSize(password)

(***************************************************************************)
(* Claims about the metrics of a returned record.                          *)
(***************************************************************************)
\* C14: the timeToCrack of every GeneratedPassword a generator returns is
\* 2^entropy / 10^12 seconds for the entropy field of the same record, that is
\* (effective alphabet size)^length / 10^12
C14_TimeFromEntropy ==
    result.kind = "password" =>
        /\ result.timeToCrack.bits = result.entropy
        /\ result.timeToCrack.bits
               = Len(result.password) * Log2Micro[EffectiveSize(result.password)]

\* the bin of an entropy, in bits
StrengthBin(entropy) ==
    CASE entropy < 30 * Micro -> "Very Weak"
      [] entropy >= 30 * Micro /\ entropy < 40 * Micro -> "Weak"
      [] entropy >= 40 * Micro /\ entropy < 50 * Micro -> "Average"
      [] entropy >= 50 * Micro /\ entropy < 60 * Micro -> "Strong"
      [] entropy >= 60 * Micro -> "Very Strong"

\* C15: the strengthLevel of every GeneratedPassword a generator returns is the bin
\* of the entropy field of the same record, and the record is Very Strong exactly
\* when its entropy is at least 60 bits, the test of entropyAbove60Bits
C15_StrengthIsEntropyBin ==
    result.kind = "password" =>
        /\ result.entropy >= 0
        /\ result.strengthLevel = StrengthBin(result.entropy)
        /\ result.strengthLevel = "Very Strong" <=> result.entropy >= 60 * Micro

\* C15 witness: a record of the Markov generator in a middle bin
C15_Witness ==
    /\ MarkovReturned
    /\ result.strengthLevel = "Average"

(***************************************************************************)
(* Claims about compareApproaches, checked under SpecCompare.              *)
(***************************************************************************)
Compared == pc = "done" /\ result.kind = "comparison"

NonEmptyCompared ==
    Compared /\ result.randomPasswords # <<>> /\ result.markovPasswords # <<>>

\* the mean of the values f gives the records of a batch
meanOf(passwords, f(_)) ==
    numDiv(sumOf([i \in 1..Len(passwords) |-> f(passwords[i])]), Num(Len(passwords)))

meanEntropy(passwords) == meanOf(passwords, LAMBDA p : p.entropy)

meanYears(passwords) == meanOf(passwords, LAMBDA p : p.timeToCrack.years)

meanReadability(passwords) == meanOf(passwords, LAMBDA p : Num(readabilityOf(p.password)))

bothMetPercentage(passwords) ==
    percentageOf(Cardinality({i \in 1..Len(passwords) :
                                 /\ numGe(passwords[i].entropy, Num(60))
                                 /\ numGe(passwords[i].timeToCrack.years, Num(10))}),
                 Len(passwords))

\* what the claim says of one metric, given the two values it compares
MetricAsClaimed(metric, random, markov) ==
    /\ metric.random = random
    /\ metric.markov = markov
    /\ metric.difference = numSub(metric.markov, metric.random)
    /\ metric.better \in {"markov", "random"}
    /\ metric.better = "markov" <=> numGt(metric.markov, metric.random)

\* C16: on non-empty batches each of the four compared metrics (mean entropy, mean
\* cracking years, mean readability score, both-requirements-met percentage) has
\* difference = markov value - random value, and better = "markov" exactly when the
\* markov value is strictly greater, "random" otherwise, ties included.
C16_MetricDifferenceAndBetter ==
    NonEmptyCompared =>
        LET r == result.randomPasswords
            m == result.markovPasswords
            c == result.analysis.comparison
        IN /\ MetricAsClaimed(c.entropyComparison, meanEntropy(r), meanEntropy(m))
           /\ MetricAsClaimed(c.timeComparison, meanYears(r), meanYears(m))
           /\ MetricAsClaimed(c.readabilityComparison, meanReadability(r), meanReadability(m))
           /\ MetricAsClaimed(c.securityComplianceComparison,
                              bothMetPercentage(r), bothMetPercentage(m))

\* a comparison with a metric the Markov batch wins, one the random batch wins and an
\* exact tie
C16_Witness ==
    /\ NonEmptyCompared
    /\ result.analysis.comparison.entropyComparison.better = "markov"
    /\ result.analysis.comparison.timeComparison.difference = Num(0)
    /\ result.analysis.comparison.timeComparison.better = "random"
    /\ numGt(result.analysis.comparison.readabilityComparison.random,
             result.analysis.comparison.readabilityComparison.markov)
    /\ result.analysis.comparison.readabilityComparison.better = "random"

SelfCompared == NonEmptyCompared /\ result.randomPasswords = result.markovPasswords

FourMetrics ==
    {"entropyComparison", "timeComparison", "readabilityComparison",
     "securityComplianceComparison"}

\* C17: comparing a non-empty batch with itself yields difference 0 and better =
\* "random" on all four metrics, equal randomScore and markovScore, and overallWinner =
\* "random".
C17_SelfComparisonIsTie ==
    SelfCompared =>
        /\ \A metric \in FourMetrics :
               /\ result.analysis.comparison[metric].difference = Num(0)
               /\ result.analysis.comparison[metric].better = "random"
        /\ result.analysis.recommendations.randomScore
               = result.analysis.recommendations.markovScore
        /\ result.analysis.recommendations.overallWinner = "random"

\* the four contributions the claim names, from the statistics of one batch
AxisContributions(stats) ==
    << numMul(mathMin(numDiv(stats.entropy.average, Num(60)), Num(1)), Num(25)),
       numMul(mathMin(numDiv(stats.crackingTime.average, Num(10)), Num(1)), Num(25)),
       numMul(numDiv(stats.readabilityScore.percentage, Num(100)), Num(25)),
       numMul(numDiv(stats.securityCompliance.bothRequirementsMetPercentage, Num(100)),
              Num(25)) >>

Within(x, low, high) == numGe(x, Num(low)) /\ numGe(Num(high), x)

ScoreAsClaimed(score, stats) ==
    LET axes == AxisContributions(stats)
    IN /\ \A k \in 1..4 : Within(axes[k], 0, 25)
       /\ score = sumOf(axes)
       /\ Within(score, 0, 100)

\* C18: on non-empty batches the overall score of each batch is the sum of four
\* contributions, each within [0, 25] (entropy axis min(meanEntropy/60, 1)*25, time axis
\* min(meanYears/10, 1)*25, readability percentage/100*25, both-requirements
\* percentage/100*25), so it lies in [0, 100]; overallWinner is "markov" exactly when
\* markovScore > randomScore, and "random" otherwise, ties included.
C18_OverallScoreAndWinner ==
    NonEmptyCompared =>
        /\ ScoreAsClaimed(result.analysis.recommendations.randomScore, result.analysis.random)
        /\ ScoreAsClaimed(result.analysis.recommendations.markovScore, result.analysis.markov)
        /\ result.analysis.recommendations.overallWinner \in {"markov", "random"}
        /\ result.analysis.recommendations.overallWinner = "markov"
               <=> numGt(result.analysis.recommendations.markovScore,
                         result.analysis.recommendations.randomScore)

\* the Markov batch wins overall with its entropy and time axes at the cap, against a
\* random batch below both caps
C18_Witness ==
    /\ NonEmptyCompared
    /\ result.analysis.recommendations.overallWinner = "markov"
    /\ numGt(result.analysis.markov.entropy.average, Num(60))
    /\ numGt(result.analysis.markov.crackingTime.average, Num(10))
    /\ AxisContributions(result.analysis.markov)[1] = Num(25)
    /\ AxisContributions(result.analysis.markov)[2] = Num(25)
    /\ numGt(Num(60), result.analysis.random.entropy.average)
    /\ numGt(result.analysis.random.crackingTime.average, Num(0))
    /\ numGt(Num(10), result.analysis.random.crackingTime.average)

(***************************************************************************)
(* Claims about calculateReadabilityScore, checked under SpecReadability.  *)
(***************************************************************************)
ReadabilityMeasured == pc = "done" /\ result.kind = "readability"

\* c is the letter of the lowercase word, in either case
SameLetter(c, letter) ==
    c = letter \/ (isUppercase(c) /\ CharCode(c) + 32 = CharCode(letter))

ContainsWord(pw, word) ==
    \E i \in 1..(Len(pw) - Len(word) + 1) :
        \A k \in 1..Len(word) : SameLetter(pw[i + k - 1], word[k])

IsVowel(c) == c \in {"a", "e", "i", "o", "u", "A", "E", "I", "O", "U"}

IsConsonant(c) == (isLowercase(c) \/ isUppercase(c)) /\ ~IsVowel(c)

NonAlphanumeric(pw) ==
    Cardinality({i \in 1..Len(pw) : ~isLowercase(pw[i]) /\ ~isUppercase(pw[i])
                                    /\ ~isNumber(pw[i])})

\* the five terms of the claim
ReadabilityTerms(pw) ==
    << IF \E word \in commonWords : ContainsWord(pw, word) THEN 2 ELSE 0,
       IF \E i \in 1..(Len(pw) - 1) : IsConsonant(pw[i]) /\ IsVowel(pw[i + 1]) THEN 1 ELSE 0,
       IF Len(pw) \in 8..20 THEN 1 ELSE 0,
       IF 100 * NonAlphanumeric(pw) <= 30 * Len(pw) THEN 1 ELSE 0,
       IF (\E c \in Range(pw) : isLowercase(c)) /\ (\E c \in Range(pw) : isUppercase(c))
       THEN 1 ELSE 0 >>

ClaimedScore(pw) ==
    ReadabilityTerms(pw)[1] + ReadabilityTerms(pw)[2] + ReadabilityTerms(pw)[3]
    + ReadabilityTerms(pw)[4] + ReadabilityTerms(pw)[5]

RECURSIVE ClaimedTotal(_)
ClaimedTotal(passwords) ==
    IF passwords = <<>> THEN 0
    ELSE ClaimedScore(passwords[1].password) + ClaimedTotal(Tail(passwords))

\* C19: the readability score of a password is the sum of five terms (+2 common word in
\* any case, +1 a consonant immediately followed by a vowel, +1 length in [8,20], +1 at
\* most 30% non-alphanumeric characters, +1 both cases), an integer in 0..6; for a
\* non-empty batch averageScore is the mean of these scores, in [0,6], and percentage
\* is totalScore / (6 * batch size) * 100, in [0,100].
C19_ReadabilityScore ==
    (ReadabilityMeasured /\ result.passwords # <<>>) =>
        LET n == Len(result.passwords)
            total == ClaimedTotal(result.passwords)
        IN /\ \A i \in 1..n : ClaimedScore(result.passwords[i].password) \in 0..6
           /\ \A i \in 1..n : readabilityOf(result.passwords[i].password)
                                  = ClaimedScore(result.passwords[i].password)
           /\ result.readabilityScore.averageScore = Frac(total, n)
           /\ Within(result.readabilityScore.averageScore, 0, 6)
           /\ result.readabilityScore.percentage = Frac(total * 100, 6 * n)
           /\ Within(result.readabilityScore.percentage, 0, 100)

\* a batch of a password that scores 6 and one that scores 0: the mean is 3 and the
\* percentage 50
C19_Witness ==
    /\ ReadabilityMeasured
    /\ Len(result.passwords) = 2
    /\ ReadabilityTerms(result.passwords[1].password) = <<2, 1, 1, 1, 1>>
    /\ ReadabilityTerms(result.passwords[2].password) = <<0, 0, 0, 0, 0>>
    /\ result.readabilityScore.averageScore = Num(3)
    /\ result.readabilityScore.percentage = Num(50)

(***************************************************************************)
(* Claims about numeric edge cases, checked under SpecCompare.             *)
(***************************************************************************)
\* the means, medians, percentages and averages of the statistics of one batch
StatisticsNumbers(stats) ==
    {stats.entropy.average, stats.entropy.median, stats.entropy.above60BitsPercentage,
     stats.crackingTime.average, stats.crackingTime.median,
     stats.crackingTime.above10YearsPercentage,
     stats.readabilityScore.averageScore, stats.readabilityScore.percentage,
     stats.securityCompliance.entropyAbove60BitsPercentage,
     stats.securityCompliance.timeAbove10YearsPercentage,
     stats.securityCompliance.bothRequirementsMetPercentage}
    \cup {stats.strengthDistribution[level] : level \in DOMAIN stats.strengthDistribution}

SingleElementStatistics(stats) ==
    /\ stats.entropy.median = stats.entropy.average
    /\ stats.entropy.min = stats.entropy.average
    /\ stats.entropy.max = stats.entropy.average
    /\ stats.entropy.standardDeviation = [sqrtOf |-> Num(0)]
    /\ stats.crackingTime.median = stats.crackingTime.average
    /\ stats.crackingTime.min = stats.crackingTime.average
    /\ stats.crackingTime.max = stats.crackingTime.average

BatchEdgeCasesGuarded(passwords, stats, score) ==
    /\ Len(passwords) = 0 => \A x \in StatisticsNumbers(stats) \cup {score} : isFinite(x)
    /\ Len(passwords) = 1 => SingleElementStatistics(stats)

\* C20: compareApproaches with a zero-length batch on either side divides by no zero
\* count: every mean, median, percentage and score of the result is a finite number;
\* and a single-element batch has mean = median = min = max and standard deviation 0.
C20_EdgeCasesGuarded ==
    Compared =>
        /\ BatchEdgeCasesGuarded(result.randomPasswords, result.analysis.random,
                                 result.analysis.recommendations.randomScore)
        /\ BatchEdgeCasesGuarded(result.markovPasswords, result.analysis.markov,
                                 result.analysis.recommendations.markovScore)

(***************************************************************************)
(* Claims about the lifecycle of the model, checked under SpecLifecycle.   *)
(***************************************************************************)
\* a step of a generatePassword or generateMultiplePasswords call: its first step
\* leaves "idle", its last one returns to it, and trainModel stays in "idle"
GenerationStep == pc # "idle" \/ pc' # "idle"

\* C21: no step of a generatePassword or generateMultiplePasswords call, whether the
\* call returns or throws, changes the transition table, the start-state table or the
\* order; only trainModel changes them.
C21_ModelReadOnlyInGeneration ==
    [][GenerationStep => UNCHANGED <<model, startStates, order>>]_vars

\* generateMultiplePasswords has pushed two passwords generated from a trained model
C21_Witness ==
    /\ batch # NoBatch
    /\ batch.generator = "markov"
    /\ Len(batch.passwords) = 2
    /\ model # <<>>
    /\ startStates # <<>>

(***************************************************************************)
(* Claims about the improvement steps of the heuristic generator, checked  *)
(* under SpecRandom.                                                       *)
(***************************************************************************)
EnabledCategories(cfg) ==
    {type \in {"uppercase", "lowercase", "numbers", "symbols"} :
        \/ type = "uppercase" /\ cfg.includeUppercase
        \/ type = "lowercase" /\ cfg.includeLowercase
        \/ type = "numbers" /\ cfg.includeNumbers
        \/ type = "symbols" /\ cfg.includeSymbols}

HasCategory(pw, type) == \E i \in 1..Len(pw) : getCharacterType(pw[i]) = type

\* C22: for a config whose length is at least the number of enabled categories, the
\* password the heuristic generator returns has a character of every enabled category.
C22_RandomCategoriesPresent ==
    (RandomReturned /\ config.length >= Cardinality(EnabledCategories(config))) =>
        \A type \in EnabledCategories(config) : HasCategory(result.password, type)

(***************************************************************************)
(* Claims about generateBasePassword of the Markov generator, checked      *)
(* under SpecMarkov.                                                       *)
(***************************************************************************)
\* the step that chooses the start state
ChainStarts == pc \in {"idle", "b_loop"} /\ pc' = "m_chain"

\* what the claim says of each step of generateBasePassword
BaseStepAsClaimed ==
    /\ ChainStarts => StartCount(trainingData, order, password') > 0
    /\ pc' = "m_chain" => ChainStarts \/ pc = "m_chain"
    /\ pc = "m_chain" =>
           \/ /\ pc' = "m_chain"
              /\ \E c \in CorpusChars(trainingData) :
                     /\ password' = Append(password, c)
                     /\ FollowedBy(trainingData, order, LastChars(password, order), c) # {}
           \/ pc' = "m_pad" /\ password' = password
    /\ pc = "m_pad" =>
           \/ /\ pc' = "m_pad"
              /\ Len(password) < config.length
              /\ \E c \in Range(buildAllowedCharacterPool(config)) :
                     password' = Append(password, c)
           \/ pc' = "m_sanitize" /\ password' = password

\* C23: the base password begins with a start state observed at the start of a
\* training password; every character the chain loop appends follows the current
\* state (the last `order` characters) somewhere in the training passwords; and once
\* the chain loop has stopped it is not resumed: the remaining positions are filled
\* with characters of buildAllowedCharacterPool(config).
C23_ChainProvenance == [][BaseStepAsClaimed]_vars

\* the chain has appended to the start state, has met a dead end before the target
\* length, and the padding loop is about to fill the rest
C23_Witness ==
    /\ pc = "m_pad"
    /\ Len(password) > order
    /\ Len(password) < config.length
    /\ ~MapHas(model, LastChars(password, order))

(***************************************************************************)
(* Claims about avoidSequentialChars, checked under SpecSequential.        *)
(***************************************************************************)
IsLetter(c) == isLowercase(c) \/ isUppercase(c)

\* a sequential run as the claim defines it: three letters consecutive in the alphabet
\* whatever their case, or three consecutive digits
ClaimedSequential(c1, c2, c3) ==
    \/ /\ IsLetter(c1) /\ IsLetter(c2) /\ IsLetter(c3)
       /\ lowerCode(c2) = lowerCode(c1) + 1 /\ lowerCode(c3) = lowerCode(c2) + 1
    \/ /\ isNumber(c1) /\ isNumber(c2) /\ isNumber(c3)
       /\ CharCode(c2) = CharCode(c1) + 1 /\ CharCode(c3) = CharCode(c2) + 1

\* C24: avoidSequentialChars changes a window of three characters only if the window
\* is three alphabetically consecutive letters (case-insensitively) or three
\* consecutive digits; a window with a character that is neither is left unchanged.
C24_OnlySequentialRunsChanged ==
    (pc = "done" /\ result.kind = "sequential" /\ result.value # password) =>
        ClaimedSequential(password[1], password[2], password[3])

(***************************************************************************)
(* Claims about ensureRequiredCharacters, checked under SpecMarkov.        *)
(***************************************************************************)
CategoryNames == {"uppercase", "lowercase", "numbers", "symbols"}

\* the minimum count of a category as the claim gives it
ClaimedMinimum(cfg, type) ==
    IF type = "uppercase" /\ cfg.includeUppercase THEN 1
    ELSE IF type = "lowercase" /\ cfg.includeLowercase THEN 1
    ELSE IF type = "numbers" /\ cfg.includeNumbers THEN 2
    ELSE IF type = "symbols" /\ cfg.includeSymbols THEN 2
    ELSE 0

\* an iteration of the loop of ensureType: the loop stays where it is
EnsureTypeIteration == pc \in {"m_symbols", "m_numbers"} /\ pc' = pc

\* the iteration replaces one character of another category by one of the target
\* category, and leaves every category that met its minimum at or above it
SafeSwap ==
    LET targetType == IF pc = "m_symbols" THEN "symbols" ELSE "numbers"
    IN /\ Len(password') = Len(password)
       /\ \E index \in 1..Len(password) :
              /\ \A other \in 1..Len(password) : other # index => password'[other] = password[other]
              /\ getCharacterType(password[index]) # targetType
              /\ getCharacterType(password'[index]) = targetType
              /\ CountType(password', getCharacterType(password[index]))
                     >= ClaimedMinimum(config, getCharacterType(password[index]))
       /\ \A type \in CategoryNames :
              CountType(password, type) >= ClaimedMinimum(config, type)
                  => CountType(password', type) >= ClaimedMinimum(config, type)

\* C25: when config.length is at least the sum of the minimum counts of the enabled
\* categories, every replacement of ensureRequiredCharacters is a safe swap: the
\* replaced character is of another category, whose count stays at or above its own
\* minimum, and no category that met its minimum is taken below it.
C25_SafeSwapWhenRoom ==
    [][(EnsureTypeIteration /\ config.length >= MinimumTotal(config)) => SafeSwap]_vars

\* the numbers loop is about to take a character from the three symbols of a password
\* of four characters
C25_Witness ==
    /\ pc = "m_numbers"
    /\ config.includeSymbols /\ config.includeNumbers
    /\ config.length >= MinimumTotal(config)
    /\ CountType(password, "numbers") = 1
    /\ CountType(password, "symbols") = 3

(***************************************************************************)
(* Claims about breakCommonPatterns and avoidSequentialChars, checked      *)
(* under SpecPatterns.                                                     *)
(***************************************************************************)
PatternsBroken == pc = "done" /\ result.kind = "patterns"

\* the same length and, at every position, the same category
SameCategories(before, after) ==
    /\ Len(after) = Len(before)
    /\ \A i \in 1..Len(before) : getCharacterType(after[i]) = getCharacterType(before[i])

\* position i belongs to a run of three or more equal characters and is not its first
InRunNotFirst(pw, i) ==
    /\ i > 1 /\ pw[i - 1] = pw[i]
    /\ (i > 2 /\ pw[i - 2] = pw[i]) \/ (i < Len(pw) /\ pw[i + 1] = pw[i])

\* C26: breakCommonPatterns and then avoidSequentialChars keep the length of the
\* password and the category of the character at every position; breakCommonPatterns
\* changes only the characters after the first of a run of three or more equal
\* characters, and avoidSequentialChars only the middle character of a window it
\* detects.
C26_PatternBreakingKeepsCategories ==
    PatternsBroken =>
        /\ SameCategories(password, result.broken)
        /\ SameCategories(result.broken, result.improved)
        /\ \A i \in 1..Len(password) :
               result.broken[i] # password[i] => InRunNotFirst(password, i)
        /\ \A i \in 1..Len(password) :
               result.improved[i] # result.broken[i] =>
                   /\ i > 1 /\ i < Len(password)
                   /\ isSequential(result.improved[i - 1], result.broken[i],
                                   result.broken[i + 1])

\* a password whose run and whose sequence have both been changed
C26_Witness ==
    /\ PatternsBroken
    /\ password = <<"a", "a", "a", "1", "2", "3">>
    /\ result.broken[1] = "a"
    /\ result.broken[3] # "a"
    /\ result.improved[5] # "2"
    /\ isNumber(result.improved[5])

(***************************************************************************)
(* Claims about the arguments of compareApproaches, checked under          *)
(* SpecCompare.                                                            *)
(***************************************************************************)
\* the same length, and at every index the same record with the same fields
SameArray(before, after) ==
    /\ Len(after) = Len(before)
    /\ \A i \in 1..Len(before) :
           /\ after[i].password = before[i].password
           /\ after[i].entropy = before[i].entropy
           /\ after[i].timeToCrack = before[i].timeToCrack
           /\ after[i].strengthLevel = before[i].strengthLevel
           /\ after[i].generationMethod = before[i].generationMethod

C28_MarkovCategoriesPresent ==
    (MarkovReturned /\ config.length >= MinimumTotal(config)) =>
        \A type \in EnabledCategories(config) : HasCategory(result.password, type)

(***************************************************************************)
(* Claims about appending a character, checked under SpecAppend.           *)
(***************************************************************************)
\* C29: appending one character to a non-empty password never decreases the alphabet
\* size calculateEntropy uses, and so never decreases the entropy, also when the number
\* of distinct characters goes from 25 to 26.
C29_AppendNeverLowersSize ==
    result.kind = "appended" =>
        /\ result.sizeAfter >= result.sizeBefore
        /\ result.entropyAfter >= result.entropyBefore

(***************************************************************************)
(* Claims about the trained tables and the first chain step, checked under *)
(* SpecLifecycle.                                                          *)
(***************************************************************************)
\* every start state is a key of the table, and every state of the table has an
\* outgoing transition
TablesConnected ==
    /\ \A i \in 1..Len(startStates) :
           /\ MapHas(model, startStates[i][1])
           /\ Len(MapGet(model, startStates[i][1])) >= 1
    /\ \A i \in 1..Len(model) : Len(model[i][2]) >= 1

\* the first iteration of the chain loop, for a config longer than the order
FirstChainStep == pc = "m_chain" /\ Len(password) = order /\ config.length > order

\* the first iteration appends a character that follows the start state in the corpus
FirstChainStepAppends ==
    /\ pc' = "m_chain"
    /\ \E c \in CorpusChars(trainingData) :
           /\ password' = Append(password, c)
           /\ FollowedBy(trainingData, order, password, c) # {}

=============================================================================
